---- MODULE Spec2Model ----
(***************************************************************************)
(* Model of the requirement-extraction engine of                           *)
(* scripts/process_transcript.py (class TranscriptProcessor) and of the    *)
(* ticket-type detection of utils/ticket_generator.py, with the command    *)
(* line of process_transcript.py and the pipeline of scripts/workflow.py   *)
(* around it.                                                              *)
(*                                                                         *)
(* A transcript is a TLA+ string.  The regular expressions of the source   *)
(* are written as pattern terms (literal, alternation, character class,    *)
(* greedy/lazy repetition, capturing group) and matched by a backtracking  *)
(* matcher with the priorities of Python's re module: alternatives in      *)
(* order, greedy repetitions longest first, lazy ones shortest first.      *)
(* re.IGNORECASE is modelled by matching the lower-cased pattern against   *)
(* the lower-cased text and reading the groups from the original text.     *)
(***************************************************************************)
EXTENDS Integers, Sequences, FiniteSets, TLC

VARIABLES
    transcript_text,      \* argument of process_transcript
    metadata,             \* argument of process_transcript (None or a dict)
    clock,                \* the value datetime.now() returns
    extraction_patterns,  \* TranscriptProcessor.extraction_patterns
    pc,                   \* position inside process_transcript
    structure,            \* local `structure` of process_transcript
    epics,                \* local `epics` of process_transcript
    idx,                  \* position of the for loop over epics
    returned,             \* documents returned by earlier calls
    fs,                   \* the files: path -> absent, unreadable or a file with its data
    cli,                  \* the running script: its arguments, position and locals
    call                  \* a call of a library function: its arguments and its result

vars == <<transcript_text, metadata, clock, extraction_patterns, pc,
          structure, epics, idx, returned, fs, cli, call>>

(***************************************************************************)
(* Bounds of the model.                                                    *)
(***************************************************************************)
MaxSentences == 2
MaxCalls == 2

(***************************************************************************)
(* Python str primitives.                                                  *)
(***************************************************************************)
UpperLetters == "ABCDEFGHIJKLMNOPQRSTUVWXYZ"
LowerLetters == "abcdefghijklmnopqrstuvwxyz"
Digits == "0123456789"

CharAt(s, i) == SubSeq(s, i, i)

CharsOf(s) == {CharAt(s, i) : i \in 1..Len(s)}

UpperSet == CharsOf(UpperLetters)
LowerSet == CharsOf(LowerLetters)
DigitSet == CharsOf(Digits)
SpaceSet == {" ", "\t", "\n", "\r", "\f"}

LowerOf == [c \in UpperSet |->
              CharAt(LowerLetters, CHOOSE i \in 1..26 : CharAt(UpperLetters, i) = c)]
UpperOf == [c \in LowerSet |->
              CharAt(UpperLetters, CHOOSE i \in 1..26 : CharAt(LowerLetters, i) = c)]

LowerChar(c) == IF c \in UpperSet THEN LowerOf[c] ELSE c
UpperChar(c) == IF c \in LowerSet THEN UpperOf[c] ELSE c

RECURSIVE lower(_)
\* str.lower(): every upper-case letter replaced, starting with the first one
lower(s) ==
    IF \A i \in 1..Len(s) : CharAt(s, i) \notin UpperSet THEN s
    ELSE LET u == CHOOSE i \in 1..Len(s) :
                      /\ CharAt(s, i) \in UpperSet
                      /\ \A j \in 1..(i - 1) : CharAt(s, j) \notin UpperSet
         IN SubSeq(s, 1, u - 1) \o LowerOf[CharAt(s, u)] \o lower(SubSeq(s, u + 1, Len(s)))

\* str.capitalize(): first character upper-cased, the rest lower-cased
capitalize(s) == IF s = "" THEN "" ELSE UpperChar(Head(s)) \o lower(Tail(s))

RECURSIVE lstrip(_)
lstrip(s) == IF s # "" /\ Head(s) \in SpaceSet THEN lstrip(Tail(s)) ELSE s

RECURSIVE rstrip(_)
rstrip(s) ==
    IF s # "" /\ CharAt(s, Len(s)) \in SpaceSet
    THEN rstrip(SubSeq(s, 1, Len(s) - 1)) ELSE s

\* str.strip()
strip(s) == rstrip(lstrip(s))

\* `sub in s`
Contains(s, sub) ==
    \E i \in 1..(Len(s) - Len(sub) + 1) : SubSeq(s, i, i + Len(sub) - 1) = sub

\* any(word in s for word in words)
ContainsAny(s, words) == \E k \in 1..Len(words) : Contains(s, words[k])

\* str.startswith
startswith(s, p) == Len(p) <= Len(s) /\ SubSeq(s, 1, Len(p)) = p

RECURSIVE replace(_, _, _)
\* str.replace(old, new) for a non-empty `old`: every occurrence, left to right
replace(s, old, new) ==
    IF Len(s) < Len(old) THEN s
    ELSE IF SubSeq(s, 1, Len(old)) = old
         THEN new \o replace(SubSeq(s, Len(old) + 1, Len(s)), old, new)
         ELSE CharAt(s, 1) \o replace(Tail(s), old, new)

(***************************************************************************)
(* Regular expressions (module re).                                        *)
(***************************************************************************)
\* character classes of the patterns of the source
InClass(cls, c) ==
    CASE cls = "space"      -> c \in SpaceSet                      \* \s
      [] cls = "digit"      -> c \in DigitSet                      \* \d
      [] cls = "word"       -> c \in UpperSet \cup LowerSet \cup DigitSet \cup {"_"} \* \w
      [] cls = "alpha"      -> c \in UpperSet \cup LowerSet        \* [A-Z] under IGNORECASE
      [] cls = "alphaspace" -> c \in UpperSet \cup LowerSet \cup SpaceSet \* [A-Za-z\s]
      [] cls = "notdot"     -> c # "."                             \* [^.]
      [] cls = "notnl"      -> c # "\n"                            \* [^\n]
      [] cls = "dash"       -> c = "-"                             \* [-...] (ASCII member)
      [] cls = "sep"        -> c \in {",", ";"}                    \* [,;]
      [] cls = "stop"       -> c \in {".", "!", "?"}               \* [.!?]

\* pattern terms
Lit(s) == [t |-> "lit", s |-> s]
Alt(alts) == [t |-> "alt", alts |-> alts]
Opt(items) == Alt(<<items, <<>>>>)
One(cls) == [t |-> "one", cls |-> cls]
Plus(cls) == [t |-> "rep", cls |-> cls, min |-> 1, greedy |-> TRUE]
Star(cls) == [t |-> "rep", cls |-> cls, min |-> 0, greedy |-> TRUE]
PlusLazy(cls) == [t |-> "rep", cls |-> cls, min |-> 1, greedy |-> FALSE]
StarLazy(cls) == [t |-> "rep", cls |-> cls, min |-> 0, greedy |-> FALSE]
Grp(g, items) == <<[t |-> "open", g |-> g]>> \o items \o <<[t |-> "close", g |-> g]>>

NoMatch == [ok |-> FALSE]
NoGroups == [g \in 1..3 |-> <<0, 0>>]

RECURSIVE RunLen(_, _, _)
\* number of consecutive characters of class cls from position pos
RunLen(txt, cls, pos) ==
    IF pos <= Len(txt) /\ InClass(cls, CharAt(txt, pos))
    THEN 1 + RunLen(txt, cls, pos + 1) ELSE 0

RECURSIVE MatchAt(_, _, _, _)
RECURSIVE TryAlts(_, _, _, _, _, _)
RECURSIVE TryCount(_, _, _, _, _, _, _)

\* the first way, in backtracking order, in which `items` match txt at pos
MatchAt(txt, items, pos, caps) ==
    IF items = <<>> THEN [ok |-> TRUE, end |-> pos, caps |-> caps]
    ELSE LET it == Head(items)
             rest == Tail(items)
         IN CASE it.t = "lit" ->
                   IF pos + Len(it.s) - 1 <= Len(txt)
                      /\ SubSeq(txt, pos, pos + Len(it.s) - 1) = it.s
                   THEN MatchAt(txt, rest, pos + Len(it.s), caps)
                   ELSE NoMatch
              [] it.t = "one" ->
                   IF pos <= Len(txt) /\ InClass(it.cls, CharAt(txt, pos))
                   THEN MatchAt(txt, rest, pos + 1, caps)
                   ELSE NoMatch
              [] it.t = "alt" -> TryAlts(txt, it.alts, 1, rest, pos, caps)
              [] it.t = "rep" ->
                   LET run == RunLen(txt, it.cls, pos)
                   IN IF run < it.min THEN NoMatch
                      ELSE IF it.greedy
                           THEN TryCount(txt, rest, pos, caps, run, it.min, -1)
                           ELSE TryCount(txt, rest, pos, caps, it.min, run, 1)
              [] it.t = "open" ->
                   MatchAt(txt, rest, pos, [caps EXCEPT ![it.g] = <<pos, 0>>])
              [] it.t = "close" ->
                   MatchAt(txt, rest, pos, [caps EXCEPT ![it.g] = <<caps[it.g][1], pos>>])

\* alternatives k.. of an alternation, in order
TryAlts(txt, alts, k, rest, pos, caps) ==
    IF k > Len(alts) THEN NoMatch
    ELSE LET r == MatchAt(txt, alts[k] \o rest, pos, caps)
         IN IF r.ok THEN r ELSE TryAlts(txt, alts, k + 1, rest, pos, caps)

\* repetition counts from `from` to `to` in steps of `step`
TryCount(txt, rest, pos, caps, from, to, step) ==
    LET r == MatchAt(txt, rest, pos + from, caps)
    IN IF r.ok THEN r
       ELSE IF from = to THEN NoMatch
       ELSE TryCount(txt, rest, pos, caps, from + step, to, step)

RECURSIVE SearchFrom(_, _, _)
\* re.search from position pos: the leftmost match, or NoMatch
SearchFrom(txt, pat, pos) ==
    IF pos > Len(txt) THEN NoMatch
    ELSE LET r == MatchAt(txt, pat, pos, NoGroups)
         IN IF r.ok THEN [ok |-> TRUE, start |-> pos, end |-> r.end, caps |-> r.caps]
            ELSE SearchFrom(txt, pat, pos + 1)

RECURSIVE Feasible(_, _)
\* a necessary condition for `items` to match anywhere in txt: every literal that
\* each way through the pattern must read occurs in txt
Feasible(txt, items) ==
    \A k \in 1..Len(items) :
        CASE items[k].t = "lit" -> Contains(txt, items[k].s)
          [] items[k].t = "alt" ->
               \E a \in 1..Len(items[k].alts) : Feasible(txt, items[k].alts[a])
          [] OTHER -> TRUE

search(pat, txt) == IF Feasible(txt, pat) THEN SearchFrom(txt, pat, 1) ELSE NoMatch

RECURSIVE FindFrom(_, _, _)
\* re.finditer: the successive non-overlapping matches, left to right
FindFrom(txt, pat, pos) ==
    LET m == SearchFrom(txt, pat, pos)
    IN IF ~m.ok THEN <<>>
       ELSE <<m>> \o FindFrom(txt, pat, IF m.end > m.start THEN m.end ELSE m.end + 1)

finditer(pat, txt) == IF Feasible(txt, pat) THEN FindFrom(txt, pat, 1) ELSE <<>>

\* match.group(g), read from the original text
group(orig, m, g) == SubSeq(orig, m.caps[g][1], m.caps[g][2] - 1)

RECURSIVE SplitFrom(_, _, _, _)
SplitFrom(s, pat, ms, k) ==
    IF k > Len(ms)
    THEN <<SubSeq(s, IF k = 1 THEN 1 ELSE ms[k - 1].end, Len(s))>>
    ELSE <<SubSeq(s, IF k = 1 THEN 1 ELSE ms[k - 1].end, ms[k].start - 1)>>
         \o SplitFrom(s, pat, ms, k + 1)

\* re.split(pat, s) for a pattern without capturing groups (case-sensitive)
split(pat, s) == SplitFrom(s, pat, finditer(pat, s), 1)

(***************************************************************************)
(* TranscriptProcessor._load_extraction_patterns: the table of regular     *)
(* expression sources, and re's compilation of each source that the code   *)
(* uses to a pattern term.  (The en and em dash of the field patterns are  *)
(* written \\u2013 and \\u2014; transcripts of the model hold ASCII.)   *)
(***************************************************************************)
_load_extraction_patterns ==
    [epic_name |-> <<
        "(?:build|create|implement|develop)\\s+(?:a\\s+|an\\s+|the\\s+)?([A-Z][A-Za-z\\s]+?)(?:\\s+feature|\\s+module|\\s+system)",
        "(?:for\\s+the\\s+)([A-Z][A-Za-z\\s]+?)(?:\\s+feature|\\s+module)">>,
     user_story |-> <<
        "(users?|nurses?|doctors?|admins?|staff)\\s+(?:should\\s+be\\s+able\\s+to|need\\s+to|must|can)\\s+([^.]+)",
        "(?:the\\s+system|it)\\s+(?:should|must|needs?\\s+to)\\s+(?:allow|enable|let)\\s+(?:users?|nurses?|doctors?)\\s+to\\s+([^.]+)">>,
     field_spec |-> <<
        "(?:fields?\\s+(?:for|include)|need|require|capture)\\s+([^.]+?)\\s*[-\\u2013\\u2014]\\s*(all\\s+)?(?:required|mandatory|optional)",
        "with\\s+fields?\\s+(?:for\\s+)?([^.]+)">>,
     table_columns |-> <<
        "(?:table|columns?)\\s+(?:showing|with|for|displaying)\\s+([^.]+)",
        "(?:show|display)\\s+(?:columns?\\s+for\\s+)?([^.]+)\\s+in\\s+(?:the\\s+)?table">>,
     tabs |-> <<
        "(?:tabs?|sections?)\\s*:\\s*([^.]+)",
        "(?:split|divided)\\s+into\\s+(?:\\d+\\s+)?tabs?\\s*:\\s*([^.]+)">>,
     priority |-> <<
        "(?:priority\\s+is\\s+|)(?:highest|high|medium|low|critical)",
        "(?:critical|urgent|important)\\s+for">>,
     rbac |-> <<
        "(nurses?|doctors?|admins?|staff|users?)\\s+can\\s+([^.]+)",
        "only\\s+(nurses?|doctors?|admins?)\\s+(?:can|should|may)\\s+([^.]+)">>,
     validation |-> <<
        "(?:should\\s+not\\s+allow|don't\\s+allow|prevent|block)\\s+([^.]+)",
        "(?:required\\s+when|only\\s+if|mandatory\\s+when)\\s+([^.]+)">>]

\* x? for a literal x
OptLit(s) == Opt(<<Lit(s)>>)
\* (?:w1|w2|...) for literal words
Words(ws) == Alt([k \in 1..Len(ws) |-> <<Lit(ws[k])>>])
S1 == Plus("space")
S0 == Star("space")

Roles3 == Alt(<< <<Lit("nurse"), OptLit("s")>>, <<Lit("doctor"), OptLit("s")>>,
                 <<Lit("admin"), OptLit("s")>> >>)
Roles5 == Alt(<< <<Lit("nurse"), OptLit("s")>>, <<Lit("doctor"), OptLit("s")>>,
                 <<Lit("admin"), OptLit("s")>>, <<Lit("staff")>>,
                 <<Lit("user"), OptLit("s")>> >>)

\* re.compile(source, re.IGNORECASE) for the rules the code applies
Compile(source) ==
    CASE source = _load_extraction_patterns.epic_name[1] ->
           <<Words(<<"build", "create", "implement", "develop">>), S1,
             Alt(<< <<Lit("a"), S1>>, <<Lit("an"), S1>>, <<Lit("the"), S1>>, <<>> >>)>>
           \o Grp(1, <<One("alpha"), PlusLazy("alphaspace")>>)
           \o <<Alt(<< <<S1, Lit("feature")>>, <<S1, Lit("module")>>, <<S1, Lit("system")>> >>)>>
      [] source = _load_extraction_patterns.epic_name[2] ->
           <<Lit("for"), S1, Lit("the"), S1>>
           \o Grp(1, <<One("alpha"), PlusLazy("alphaspace")>>)
           \o <<Alt(<< <<S1, Lit("feature")>>, <<S1, Lit("module")>> >>)>>
      [] source = _load_extraction_patterns.table_columns[1] ->
           <<Alt(<< <<Lit("table")>>, <<Lit("column"), OptLit("s")>> >>), S1,
             Words(<<"showing", "with", "for", "displaying">>), S1>>
           \o Grp(1, <<Plus("notdot")>>)
      [] source = _load_extraction_patterns.table_columns[2] ->
           <<Words(<<"show", "display">>), S1,
             Opt(<<Lit("column"), OptLit("s"), S1, Lit("for"), S1>>)>>
           \o Grp(1, <<Plus("notdot")>>)
           \o <<S1, Lit("in"), S1, Opt(<<Lit("the"), S1>>), Lit("table")>>
      [] source = _load_extraction_patterns.tabs[1] ->
           <<Alt(<< <<Lit("tab"), OptLit("s")>>, <<Lit("section"), OptLit("s")>> >>),
             S0, Lit(":"), S0>>
           \o Grp(1, <<Plus("notdot")>>)
      [] source = _load_extraction_patterns.tabs[2] ->
           <<Words(<<"split", "divided">>), S1, Lit("into"), S1,
             Opt(<<Plus("digit"), S1>>), Lit("tab"), OptLit("s"), S0, Lit(":"), S0>>
           \o Grp(1, <<Plus("notdot")>>)
      [] source = _load_extraction_patterns.rbac[1] ->
           Grp(1, <<Roles5>>) \o <<S1, Lit("can"), S1>> \o Grp(2, <<Plus("notdot")>>)
      [] source = _load_extraction_patterns.rbac[2] ->
           <<Lit("only"), S1>> \o Grp(1, <<Roles3>>)
           \o <<S1, Words(<<"can", "should", "may">>), S1>>
           \o Grp(2, <<Plus("notdot")>>)

\* r'[,;]|\s+and\s+' (lines 197, 303, 333)
SplitListPattern == <<Alt(<< <<One("sep")>>, <<S1, Lit("and"), S1>> >>)>>


(***************************************************************************)
(* TranscriptProcessor: the extraction methods.                            *)
(***************************************************************************)
InSeq(x, xs) == \E i \in 1..Len(xs) : xs[i] = x

RECURSIVE StripNonEmpty(_)
\* [t.strip() for t in xs if t.strip()]
StripNonEmpty(xs) ==
    IF xs = <<>> THEN <<>>
    ELSE (IF strip(Head(xs)) # "" THEN <<strip(Head(xs))>> ELSE <<>>)
         \o StripNonEmpty(Tail(xs))

D == One("digit")

\* r"(?:date|meeting)\s*:\s*(\d{4}-\d{2}-\d{2}|\d{1,2}/\d{1,2}/\d{4})"
DatePattern ==
    <<Words(<<"date", "meeting">>), S0, Lit(":"), S0>>
    \o Grp(1, <<Alt(<< <<D, D, D, D, Lit("-"), D, D, Lit("-"), D, D>>,
                      <<D, Opt(<<D>>), Lit("/"), D, Opt(<<D>>), Lit("/"), D, D, D, D>> >>)>>)

\* r"(?:attendees|participants)\s*:\s*([^\n]+)"
AttendeesPattern ==
    <<Words(<<"attendees", "participants">>), S0, Lit(":"), S0>>
    \o Grp(1, <<Plus("notnl")>>)

Pad2(n) == CharAt(Digits, (n \div 10) + 1) \o CharAt(Digits, (n % 10) + 1)

\* datetime.strftime("%Y-%m-%d")
strftime(now) ==
    Pad2(now.year \div 100) \o Pad2(now.year % 100) \o "-" \o Pad2(now.month)
    \o "-" \o Pad2(now.day)

\* variant: the last labelled date of the transcript instead of the first
_extract_metadata_last_date(text) ==
    LET date_matches == finditer(DatePattern, lower(text))
        attendees_match == search(AttendeesPattern, lower(text))
    IN [date |-> IF date_matches # <<>>
                 THEN group(text, date_matches[Len(date_matches)], 1)
                 ELSE strftime(clock),
        attendees |-> IF attendees_match.ok
                      THEN StripNonEmpty(split(<<One("sep")>>, group(text, attendees_match, 1)))
                      ELSE <<>>,
        duration |-> "Unknown",
        topics |-> <<>>]

_extract_metadata(text) ==
    LET date_match == search(DatePattern, lower(text))
        attendees_match == search(AttendeesPattern, lower(text))
    IN [date |-> IF date_match.ok THEN group(text, date_match, 1) ELSE strftime(clock),
        attendees |-> IF attendees_match.ok
                      THEN StripNonEmpty(split(<<One("sep")>>, group(text, attendees_match, 1)))
                      ELSE <<>>,
        duration |-> "Unknown",
        topics |-> <<>>]

RECURSIVE EpicsOfMatchesNoDedup(_, _, _, _)
\* variant: the membership test of line 138 left out
EpicsOfMatchesNoDedup(text, ms, k, acc) ==
    IF k > Len(ms) THEN acc
    ELSE LET epic_name == strip(group(text, ms[k], 1))
         IN EpicsOfMatchesNoDedup(text, ms, k + 1,
                IF epic_name # "" THEN Append(acc, epic_name) ELSE acc)

RECURSIVE EpicsOfMatches(_, _, _, _)
\* the inner loop of _extract_epics over the matches ms[k..] of one rule
EpicsOfMatches(text, ms, k, acc) ==
    IF k > Len(ms) THEN acc
    ELSE LET epic_name == strip(group(text, ms[k], 1))
         IN EpicsOfMatches(text, ms, k + 1,
                IF epic_name # "" /\ ~InSeq(epic_name, acc)
                THEN Append(acc, epic_name) ELSE acc)

RECURSIVE EpicsOfRules(_, _, _, _)
\* the outer loop of _extract_epics over the rules pats[p..]
EpicsOfRules(text, pats, p, acc) ==
    IF p > Len(pats) THEN acc
    ELSE EpicsOfRules(text, pats, p + 1,
            EpicsOfMatches(text, finditer(Compile(pats[p]), lower(text)), 1, acc))

\* variant: the fallback of line 141 left out
_extract_epics_no_fallback(text) ==
    EpicsOfRules(text, extraction_patterns.epic_name, 1, <<>>)

\* variant: the list of names kept on the instance and never reset between calls
_extract_epics_accumulating(text) ==
    LET previous == IF returned # <<>> /\ returned[Len(returned)].outcome = "done"
                    THEN [i \in 1..Len(returned[Len(returned)].document.epics) |->
                            returned[Len(returned)].document.epics[i].epic_name]
                    ELSE <<>>
        found == EpicsOfRules(text, extraction_patterns.epic_name, 1, previous)
    IN IF found # <<>> THEN found ELSE <<"Unnamed Feature">>

_extract_epics(text) ==
    LET found == EpicsOfRules(text, extraction_patterns.epic_name, 1, <<>>)
    IN IF found # <<>> THEN found ELSE <<"Unnamed Feature">>

RECURSIVE FirstDescription(_, _, _)
FirstDescription(sentences, epic_name, k) ==
    IF k > Len(sentences) THEN "Feature for " \o epic_name
    ELSE IF Contains(lower(sentences[k]), lower(epic_name))
            /\ Len(strip(sentences[k])) > 20
         THEN strip(sentences[k])
         ELSE FirstDescription(sentences, epic_name, k + 1)

_extract_epic_description(text, epic_name) ==
    FirstDescription(split(<<One("stop")>>, text), epic_name, 1)

\* variant: the tiers tested from the lowest up
_extract_priority_low_first(text) ==
    LET text_lower == lower(text)
    IN IF Contains(text_lower, "low priority") THEN "Low"
       ELSE IF Contains(text_lower, "high priority") \/ Contains(text_lower, "important")
            THEN "High"
       ELSE IF ContainsAny(text_lower, <<"highest", "critical", "urgent">>) THEN "Highest"
       ELSE "Medium"

_extract_priority(text) ==
    LET text_lower == lower(text)
    IN IF ContainsAny(text_lower, <<"highest", "critical", "urgent">>) THEN "Highest"
       ELSE IF Contains(text_lower, "high priority") \/ Contains(text_lower, "important")
            THEN "High"
       ELSE IF Contains(text_lower, "low priority") THEN "Low"
       ELSE "Medium"

RECURSIVE ItemsOfMatches(_, _, _)
\* for each match: split group 1 on commas, semicolons and 'and', strip, keep non-empty
ItemsOfMatches(text, ms, k) ==
    IF k > Len(ms) THEN <<>>
    ELSE StripNonEmpty(split(SplitListPattern, group(text, ms[k], 1)))
         \o ItemsOfMatches(text, ms, k + 1)

RECURSIVE ItemsOfRules(_, _, _)
ItemsOfRules(text, pats, p) ==
    IF p > Len(pats) THEN <<>>
    ELSE ItemsOfMatches(text, finditer(pats[p], lower(text)), 1)
         \o ItemsOfRules(text, pats, p + 1)

CompileAll(sources) == [k \in 1..Len(sources) |-> Compile(sources[k])]

\* variant: only the first rule that yields anything is used
_extract_tabs_first_rule(text) ==
    LET first == ItemsOfRules(text, CompileAll(SubSeq(extraction_patterns.tabs, 1, 1)), 1)
    IN IF first # <<>> THEN first
       ELSE ItemsOfRules(text, CompileAll(SubSeq(extraction_patterns.tabs, 2, 2)), 1)

\* lines 188-200
_extract_tabs(text) == ItemsOfRules(text, CompileAll(extraction_patterns.tabs), 1)

_has_rbac_requirements(text) ==
    ContainsAny(lower(text),
        <<"permission", "access", "role", "only", "can view", "can edit", "restricted">>)

RoleIndex(rbac, role) == CHOOSE i \in 1..Len(rbac) : rbac[i].role = role

RECURSIVE RbacOfMatchesOverwriting(_, _, _, _)
\* variant: a later match replaces the actions of its role
RbacOfMatchesOverwriting(text, ms, k, rbac) ==
    IF k > Len(ms) THEN rbac
    ELSE LET role == capitalize(group(text, ms[k], 1))
             action == strip(group(text, ms[k], 2))
             known == \E i \in 1..Len(rbac) : rbac[i].role = role
             with == IF known THEN rbac
                     ELSE Append(rbac, [role |-> role, permissions |-> <<>>, actions |-> <<>>])
             i == RoleIndex(with, role)
         IN RbacOfMatchesOverwriting(text, ms, k + 1,
                [with EXCEPT ![i].actions = <<action>>])

RECURSIVE RbacOfMatches(_, _, _, _)
\* the rbac dict as the sequence of its items in insertion order
RbacOfMatches(text, ms, k, rbac) ==
    IF k > Len(ms) THEN rbac
    ELSE LET role == capitalize(group(text, ms[k], 1))
             action == strip(group(text, ms[k], 2))
             known == \E i \in 1..Len(rbac) : rbac[i].role = role
             with == IF known THEN rbac
                     ELSE Append(rbac, [role |-> role, permissions |-> <<>>, actions |-> <<>>])
             i == RoleIndex(with, role)
         IN RbacOfMatches(text, ms, k + 1,
                [with EXCEPT ![i].actions = Append(@, action)])

RECURSIVE RbacOfRules(_, _, _, _)
RbacOfRules(text, pats, p, rbac) ==
    IF p > Len(pats) THEN rbac
    ELSE RbacOfRules(text, pats, p + 1,
            RbacOfMatches(text, finditer(Compile(pats[p]), lower(text)), 1, rbac))

_extract_rbac(text) == RbacOfRules(text, extraction_patterns.rbac, 1, <<>>)

\* variant: no placeholder columns
_extract_columns_no_fallback(text, tab_name) ==
    ItemsOfRules(text, CompileAll(extraction_patterns.table_columns), 1)

\* lines 294-306
_extract_columns(text, tab_name) ==
    LET columns == ItemsOfRules(text, CompileAll(extraction_patterns.table_columns), 1)
    IN IF columns # <<>> THEN columns ELSE <<"<Column 1>", "<Column 2>", "<Column 3>">>

\* r"add\s+(?:a\s+|an\s+)?(\w+)"
AddPattern ==
    <<Lit("add"), S1, Alt(<< <<Lit("a"), S1>>, <<Lit("an"), S1>>, <<>> >>)>>
    \o Grp(1, <<Plus("word")>>)

\* variant: no article is skipped after "add"
_extract_entity_name_no_article(text, epic_name) ==
    LET add_match == search(<<Lit("add"), S1>> \o Grp(1, <<Plus("word")>>), lower(text))
    IN IF add_match.ok THEN lower(group(text, add_match, 1))
       ELSE replace(lower(epic_name), " ", "_")

_extract_entity_name(text, epic_name) ==
    LET add_match == search(AddPattern, lower(text))
    IN IF add_match.ok THEN lower(group(text, add_match, 1))
       ELSE replace(lower(epic_name), " ", "_")

\* variant: the email row tested before the name row
_guess_field_type_email_first(field_name) ==
    LET field_lower == lower(field_name)
    IN IF Contains(field_lower, "date") THEN "Date picker"
       ELSE IF Contains(field_lower, "email") THEN "Email field"
       ELSE IF Contains(field_lower, "name") THEN "Text field"
       ELSE IF Contains(field_lower, "phone") THEN "Phone field"
       ELSE IF Contains(field_lower, "note") \/ Contains(field_lower, "comment")
               \/ Contains(field_lower, "instruction")
            THEN "Large text field"
       ELSE IF Contains(field_lower, "status") \/ Contains(field_lower, "type")
               \/ Contains(field_lower, "frequency")
            THEN "Dropdown"
       ELSE "Text field"

_guess_field_type(field_name) ==
    LET field_lower == lower(field_name)
    IN IF Contains(field_lower, "date") THEN "Date picker"
       ELSE IF Contains(field_lower, "name") THEN "Text field"
       ELSE IF Contains(field_lower, "email") THEN "Email field"
       ELSE IF Contains(field_lower, "phone") THEN "Phone field"
       ELSE IF Contains(field_lower, "note") \/ Contains(field_lower, "comment")
               \/ Contains(field_lower, "instruction")
            THEN "Large text field"
       ELSE IF Contains(field_lower, "status") \/ Contains(field_lower, "type")
               \/ Contains(field_lower, "frequency")
            THEN "Dropdown"
       ELSE "Text field"

\* re.search compiles f"{field_name}[^.]*?(required|mandatory|optional)": the field
\* name is not escaped, so an unclosed "(" in it leaves the pattern with a missing
\* ")" and re raises re.error.  (")" and the other metacharacters do not occur in
\* the transcripts of the model.)
ContextPatternRaises(field_name) == Contains(field_name, "(")

ContextPattern(field_name) ==
    <<Lit(lower(field_name)), StarLazy("notdot")>>
    \o Grp(1, <<Words(<<"required", "mandatory", "optional">>)>>)

_is_mandatory(text, field_name) ==
    LET match == search(ContextPattern(field_name), lower(text))
    IN IF match.ok
       THEN lower(group(text, match, 1)) \in {"required", "mandatory"}
       ELSE TRUE

\* field_patterns of _extract_fields
FieldPatterns ==
    << \* r"fields?\s+(?:for|include)\s+([^.]+)"
       <<Lit("field"), OptLit("s"), S1, Words(<<"for", "include">>), S1>>
       \o Grp(1, <<Plus("notdot")>>),
       \* r"(?:need|require|capture)\s+([^.]+?)\s*[-..]\s*(?:all\s+)?(?:required|mandatory|optional)"
       <<Words(<<"need", "require", "capture">>), S1>>
       \o Grp(1, <<PlusLazy("notdot")>>)
       \o <<S0, One("dash"), S0, Opt(<<Lit("all"), S1>>),
            Words(<<"required", "mandatory", "optional">>)>> >>

\* the field names _extract_fields builds a Field from, in order
FieldNames(text) ==
    SelectSeq(ItemsOfRules(text, FieldPatterns, 1), LAMBDA f : Len(f) > 2)

_extract_fields_raises(text) ==
    LET names == FieldNames(text)
    IN \E k \in 1..Len(names) : ContextPatternRaises(names[k])

_extract_fields(text) ==
    LET names == FieldNames(text)
        fields == [k \in 1..Len(names) |->
                     [name |-> capitalize(names[k]),
                      type |-> _guess_field_type(names[k]),
                      mandatory |-> _is_mandatory(text, names[k])]]
    IN IF fields # <<>> THEN fields
       ELSE <<[name |-> "<Field 1>", type |-> "Text field", mandatory |-> TRUE]>>

\* patterns of _extract_action_items
ActionItemPatterns ==
    << \* r"(?:action item|todo|task)\s*:\s*([^.]+)"
       <<Words(<<"action item", "todo", "task">>), S0, Lit(":"), S0>>
       \o Grp(1, <<Plus("notdot")>>),
       \* r"([A-Z][^.]+?)\s+(?:will|should|needs? to)\s+([^.]+)\s+by\s+(\d{1,2}/\d{1,2}|\w+ \d{1,2})"
       Grp(1, <<One("alpha"), PlusLazy("notdot")>>)
       \o <<S1, Alt(<< <<Lit("will")>>, <<Lit("should")>>,
                       <<Lit("need"), OptLit("s"), Lit(" to")>> >>), S1>>
       \o Grp(2, <<Plus("notdot")>>)
       \o <<S1, Lit("by"), S1>>
       \o Grp(3, <<Alt(<< <<D, Opt(<<D>>), Lit("/"), D, Opt(<<D>>)>>,
                         <<Plus("word"), Lit(" "), D, Opt(<<D>>)>> >>)>>) >>

RECURSIVE ActionItemsOfRules(_, _, _)
ActionItemsOfRules(text, pats, p) ==
    IF p > Len(pats) THEN <<>>
    ELSE LET ms == finditer(pats[p], lower(text))
         IN [k \in 1..Len(ms) |->
               [item |-> strip(SubSeq(text, ms[k].start, ms[k].end - 1)),
                owner |-> "TBD", due_date |-> "TBD"]]
            \o ActionItemsOfRules(text, pats, p + 1)

_extract_action_items(text) == ActionItemsOfRules(text, ActionItemPatterns, 1)


Q == "\""

RECURSIVE ViewTickets(_, _, _)
ViewTickets(text, tabs, k) ==
    IF k > Len(tabs) THEN <<>>
    ELSE <<[ticket_type |-> "view_table_data",
            summary |-> "User should be able to access and view data in the table of '"
                        \o tabs[k] \o "' tab",
            priority |-> "High",
            details |-> [tab_name |-> tabs[k],
                         columns |-> _extract_columns(text, tabs[k])]]>>
         \o ViewTickets(text, tabs, k + 1)

RECURSIVE SearchTickets(_, _)
SearchTickets(tabs, k) ==
    IF k > Len(tabs) THEN <<>>
    ELSE <<[ticket_type |-> "search_filter",
            summary |-> "User should be able to search and filter data in '"
                        \o tabs[k] \o "' tab",
            priority |-> "High",
            details |-> [tab_name |-> tabs[k]]]>>
         \o SearchTickets(tabs, k + 1)

\* variant: the search_filter tickets emitted by a second loop, after the first
TabTicketsTwoLoops(text, tabs, k) ==
    ViewTickets(text, tabs, k)
    \o (IF ContainsAny(lower(text), <<"search", "filter", "find">>)
        THEN SearchTickets(tabs, k) ELSE <<>>)

\* variant: a ticket type outside the enumeration
RbacTicketUnknownType(text, epic_name) ==
    IF ContainsAny(lower(text), <<"permission", "access", "role", "only", "can view",
                                  "can edit", "restricted">>)
    THEN <<[ticket_type |-> "rbac",
            summary |-> "Adding RBAC permissions related to " \o Q \o epic_name \o Q,
            priority |-> "High",
            details |-> [rbac |-> <<>>]]>>
    ELSE <<>>

RECURSIVE TabTicketsNoFind(_, _, _)
\* variant: "find" is not a search keyword
TabTicketsNoFind(text, tabs, k) ==
    IF k > Len(tabs) THEN <<>>
    ELSE ViewTickets(text, <<tabs[k]>>, 1)
         \o (IF ContainsAny(lower(text), <<"search", "filter">>)
             THEN SearchTickets(<<tabs[k]>>, 1) ELSE <<>>)
         \o TabTicketsNoFind(text, tabs, k + 1)

\* lines 233-255: the view_table_data ticket, and the search_filter ticket when asked
\* for, of each tab
RECURSIVE TabTickets(_, _, _)
TabTickets(text, tabs, k) ==
    IF k > Len(tabs) THEN <<>>
    ELSE <<[ticket_type |-> "view_table_data",
            summary |-> "User should be able to access and view data in the table of '"
                        \o tabs[k] \o "' tab",
            priority |-> "High",
            details |-> [tab_name |-> tabs[k],
                         columns |-> _extract_columns(text, tabs[k])]]>>
         \o (IF ContainsAny(lower(text), <<"search", "filter", "find">>)
             THEN <<[ticket_type |-> "search_filter",
                     summary |-> "User should be able to search and filter data in '"
                                 \o tabs[k] \o "' tab",
                     priority |-> "High",
                     details |-> [tab_name |-> tabs[k]]]>>
             ELSE <<>>)
         \o TabTickets(text, tabs, k + 1)

\* variant: "form" missing from the creation keywords
HasCreateKeywordNoForm(text) == ContainsAny(lower(text), <<"add", "create", "new">>)

\* line 258
HasCreateKeyword(text) == ContainsAny(lower(text), <<"add", "create", "new", "form">>)

\* line 226
HasNavKeyword(text) ==
    ContainsAny(lower(text), <<"menu", "navigation", "nav bar", "sidebar">>)

\* whether _generate_tickets_from_text raises (re.error out of _is_mandatory)
_generate_tickets_from_text_raises(text) ==
    HasCreateKeyword(text) /\ _extract_fields_raises(text)

\* variant: the backend ticket with priority Medium
BackendTicketMedium(epic_name) ==
    <<[ticket_type |-> "backend_architecture",
       summary |-> "BE: Implement backend architecture of " \o Q \o epic_name \o Q,
       priority |-> "Medium"]>>

\* lines 207-212
BackendTicket(epic_name) ==
    <<[ticket_type |-> "backend_architecture",
       summary |-> "BE: Implement backend architecture of " \o Q \o epic_name \o Q,
       priority |-> "High"]>>

\* lines 214-223
RbacTicket(text, epic_name) ==
    IF _has_rbac_requirements(text)
    THEN <<[ticket_type |-> "rbac_permissions",
            summary |-> "Adding RBAC permissions related to " \o Q \o epic_name \o Q,
            priority |-> "High",
            details |-> [rbac |-> _extract_rbac(text)]]>>
    ELSE <<>>

\* lines 225-231
NavTicket(text, epic_name) ==
    IF HasNavKeyword(text)
    THEN <<[ticket_type |-> "nav_menu",
            summary |-> "FE: User should be able to view a new menu " \o Q \o epic_name
                        \o Q \o " under " \o Q \o "Clinical" \o Q \o " in nav panel",
            priority |-> "High"]>>
    ELSE <<>>

\* lines 257-268
AddTicket(text, epic_name) ==
    IF HasCreateKeyword(text)
    THEN LET entity_name == _extract_entity_name(text, epic_name)
         IN <<[ticket_type |-> "add_entity",
               summary |-> "User should be able to add a " \o entity_name,
               priority |-> "High",
               details |-> [entity_name |-> entity_name,
                            fields |-> _extract_fields(text)]]>>
    ELSE <<>>

_generate_tickets_from_text(text, epic_name, epic_data) ==
    BackendTicket(epic_name)
    \o RbacTicket(text, epic_name)
    \o NavTicket(text, epic_name)
    \o TabTickets(text, epic_data.tabs, 1)
    \o AddTicket(text, epic_name)

_process_epic_raises(text, epic_name) == _generate_tickets_from_text_raises(text)

\* variant: the priority taken from the sentence that describes the epic
_process_epic_scoped_priority(text, epic_name) ==
    LET epic_data == [epic_name |-> epic_name,
                      epic_description |-> _extract_epic_description(text, epic_name),
                      priority |-> _extract_priority(
                                      _extract_epic_description(text, epic_name)),
                      scope |-> "facility-specific",
                      tabs |-> _extract_tabs(text),
                      tickets |-> <<>>]
    IN [epic_data EXCEPT !.tickets = _generate_tickets_from_text(text, epic_name, epic_data)]

_process_epic(text, epic_name) ==
    LET epic_data == [epic_name |-> epic_name,
                      epic_description |-> _extract_epic_description(text, epic_name),
                      priority |-> _extract_priority(text),
                      scope |-> "facility-specific",
                      tabs |-> _extract_tabs(text),
                      tickets |-> <<>>]
    IN [epic_data EXCEPT !.tickets = _generate_tickets_from_text(text, epic_name, epic_data)]

\* variant: one item for every placeholder column instead of one for the ticket
TicketClarificationsPerColumn(ticket) ==
    (IF ticket.ticket_type = "add_entity"
        /\ \E k \in 1..Len(ticket.details.fields) :
              Contains(ticket.details.fields[k].name, "<")
     THEN <<[question |-> "Field specifications incomplete for " \o ticket.summary,
             context |-> "Field names or types contain placeholders"]>>
     ELSE <<>>)
    \o (IF ticket.ticket_type = "view_table_data"
        THEN LET flagged == SelectSeq(ticket.details.columns, LAMBDA c : Contains(c, "<"))
             IN [k \in 1..Len(flagged) |->
                   [question |-> "Column specifications incomplete for " \o ticket.summary,
                    context |-> "Column names contain placeholders"]]
        ELSE <<>>)

\* lines 406-422: the clarification items one ticket gives rise to
TicketClarifications(ticket) ==
    (IF ticket.ticket_type = "add_entity"
        /\ \E k \in 1..Len(ticket.details.fields) :
              Contains(ticket.details.fields[k].name, "<")
     THEN <<[question |-> "Field specifications incomplete for " \o ticket.summary,
             context |-> "Field names or types contain placeholders"]>>
     ELSE <<>>)
    \o (IF ticket.ticket_type = "view_table_data"
           /\ \E k \in 1..Len(ticket.details.columns) :
                 Contains(ticket.details.columns[k], "<")
        THEN <<[question |-> "Column specifications incomplete for " \o ticket.summary,
                context |-> "Column names contain placeholders"]>>
        ELSE <<>>)

RECURSIVE ClarificationsOfTickets(_, _)
ClarificationsOfTickets(tickets, k) ==
    IF k > Len(tickets) THEN <<>>
    ELSE TicketClarifications(tickets[k]) \o ClarificationsOfTickets(tickets, k + 1)

RECURSIVE ClarificationsOfEpics(_, _)
ClarificationsOfEpics(eps, e) ==
    IF e > Len(eps) THEN <<>>
    ELSE ClarificationsOfTickets(eps[e].tickets, 1) \o ClarificationsOfEpics(eps, e + 1)

_identify_clarifications(struct) == ClarificationsOfEpics(struct.epics, 1)


(***************************************************************************)
(* Inputs: a transcript is a sequence of at most MaxSentences sentences    *)
(* of the pool below, joined by a blank.                                   *)
(***************************************************************************)
Sentences ==
    << "Build the Foo feature.",
       "for the Bar module.",
       "create a foo system.",
       "tabs: Active and Old.",
       "split into 2 tabs: Due.",
       "table showing dose, name.",
       "add fields for name, dose - optional.",
       "new fields for dose (mg.",
       "form fields for age<5.",
       "only nurses can edit it.",
       "critical.",
       "low priority.",
       "high priority.",
       "see the menu.",
       "search.",
       "find it.",
       "add a patient.",
       "only admins can search the new menu.",
       "attendees: Al, Bo;Cy\n",
       "date: 2024-01-05.",
       "Al will ship by 3/4.",
       "participants:\n",
       "tabs: A, B and C.",
       "urgent for the Bar module.",
       "Meeting : 3/4/2024.",
       "date: soon." >>

RECURSIVE Join(_)
Join(ks) ==
    IF ks = <<>> THEN ""
    ELSE IF Len(ks) = 1 THEN Sentences[ks[1]]
    ELSE Sentences[ks[1]] \o " " \o Join(Tail(ks))

Transcripts ==
    {Join(ks) : ks \in UNION {[1..n -> 1..Len(Sentences)] : n \in 0..MaxSentences}}

None == [none |-> TRUE]
EmptyDict == <<>>

\* truth value of `metadata` in `metadata or ...`
Truthy(m) == m # None /\ m # EmptyDict

\* a caller-supplied metadata dict
GivenMetadata == [date |-> "2020-02-02", attendees |-> <<"Zed">>]

\* the transcripts processed with caller-supplied metadata
MetadataTranscripts ==
    {Join(ks) : ks \in UNION {[1..n -> 1..Len(Sentences)] : n \in 0..1}}

Today == [year |-> 2026, month |-> 11, day |-> 3]
Tomorrow == [year |-> 2026, month |-> 11, day |-> 4]

\* process_transcript called directly: no script is running and no file is involved
NoFiles == <<>>
NoScript == [program |-> "none"]
NoCall == [function |-> "none"]

(***************************************************************************)
(* TranscriptProcessor.__init__ and the call of process_transcript.        *)
(***************************************************************************)
Init ==
    /\ \/ /\ transcript_text \in Transcripts
          /\ metadata = None
       \/ /\ transcript_text \in MetadataTranscripts
          /\ \/ metadata = EmptyDict
             \/ metadata = GivenMetadata
    /\ clock = Today
    /\ extraction_patterns = _load_extraction_patterns
    /\ pc = "process_transcript"
    /\ structure = None
    /\ epics = <<>>
    /\ idx = 0
    /\ returned = <<>>
    /\ fs = NoFiles
    /\ cli = NoScript
    /\ call = NoCall

\* lines 86-91
InitStructure ==
    /\ pc = "process_transcript"
    /\ structure' = [meeting_metadata |-> IF Truthy(metadata) THEN metadata
                                          ELSE _extract_metadata(transcript_text),
                     epics |-> <<>>,
                     action_items |-> <<>>,
                     clarifications_needed |-> <<>>]
    /\ pc' = "extract_epics"
    /\ UNCHANGED <<transcript_text, metadata, clock, extraction_patterns, epics, idx,
                   returned>>
    /\ UNCHANGED <<fs, cli, call>>

\* line 94
ExtractEpics ==
    /\ pc = "extract_epics"
    /\ epics' = _extract_epics(transcript_text)
    /\ idx' = 1
    /\ pc' = "process_epic"
    /\ UNCHANGED <<transcript_text, metadata, clock, extraction_patterns, structure,
                   returned>>
    /\ UNCHANGED <<fs, cli, call>>

\* lines 96-98, one iteration; an exception leaves process_transcript
ProcessEpic ==
    /\ pc = "process_epic"
    /\ idx <= Len(epics)
    /\ IF _process_epic_raises(transcript_text, epics[idx])
       THEN /\ pc' = "raised"
            /\ UNCHANGED <<structure, idx>>
       ELSE /\ structure' = [structure EXCEPT
                               !.epics = Append(@, _process_epic(transcript_text, epics[idx]))]
            /\ idx' = idx + 1
            /\ pc' = pc
    /\ UNCHANGED <<transcript_text, metadata, clock, extraction_patterns, epics, returned>>
    /\ UNCHANGED <<fs, cli, call>>

\* line 101
ExtractActionItems ==
    /\ pc = "process_epic"
    /\ idx > Len(epics)
    /\ structure' = [structure EXCEPT !.action_items = _extract_action_items(transcript_text)]
    /\ pc' = "identify_clarifications"
    /\ UNCHANGED <<transcript_text, metadata, clock, extraction_patterns, epics, idx,
                   returned>>
    /\ UNCHANGED <<fs, cli, call>>

\* lines 104-106
IdentifyClarifications ==
    /\ pc = "identify_clarifications"
    /\ structure' = [structure EXCEPT
                       !.clarifications_needed = _identify_clarifications(structure)]
    /\ pc' = "done"
    /\ UNCHANGED <<transcript_text, metadata, clock, extraction_patterns, epics, idx,
                   returned>>
    /\ UNCHANGED <<fs, cli, call>>

Next ==
    \/ InitStructure
    \/ ExtractEpics
    \/ ProcessEpic
    \/ ExtractActionItems
    \/ IdentifyClarifications

Spec == Init /\ [][Next]_vars

(***************************************************************************)
(* Several calls of process_transcript on one TranscriptProcessor.  The    *)
(* instance holds extraction_patterns only (lines 17-18), so a second      *)
(* instance is the same state as this one between two calls.               *)
(***************************************************************************)
CallTranscripts ==
    {"", "Build the Foo feature. add a patient.", "date: 2024-01-05.",
     "new fields for dose (mg."}

InitCalls ==
    /\ transcript_text \in CallTranscripts
    /\ metadata = None
    /\ clock = Today
    /\ extraction_patterns = _load_extraction_patterns
    /\ pc = "process_transcript"
    /\ structure = None
    /\ epics = <<>>
    /\ idx = 0
    /\ returned = <<>>
    /\ fs = NoFiles
    /\ cli = NoScript
    /\ call = NoCall

\* what the call that has just ended was given and what it gave back
CallRecord ==
    [text |-> transcript_text, now |-> clock, outcome |-> pc,
     document |-> IF pc = "done" THEN structure ELSE None]

\* line 106 or the exception reaches the caller, who calls process_transcript again;
\* the locals of the ended call are gone
NewCall ==
    /\ pc \in {"done", "raised"}
    /\ Len(returned) < MaxCalls
    /\ returned' = Append(returned, CallRecord)
    /\ transcript_text' \in CallTranscripts
    /\ pc' = "process_transcript"
    /\ structure' = None
    /\ epics' = <<>>
    /\ idx' = 0
    /\ UNCHANGED <<metadata, clock, extraction_patterns>>
    /\ UNCHANGED <<fs, cli, call>>

\* midnight passes before the call reads datetime.now() at line 111
Tick ==
    /\ pc = "process_transcript"
    /\ clock = Today
    /\ clock' = Tomorrow
    /\ UNCHANGED <<transcript_text, metadata, extraction_patterns, pc, structure, epics,
                   idx, returned>>
    /\ UNCHANGED <<fs, cli, call>>

NextCalls ==
    \/ InitStructure
    \/ ExtractEpics
    \/ ProcessEpic
    \/ ExtractActionItems
    \/ IdentifyClarifications
    \/ NewCall
    \/ Tick

SpecCalls == InitCalls /\ [][NextCalls]_vars

(***************************************************************************)
(* utils/ticket_generator.py and scripts/create_tickets.py.                *)
(***************************************************************************)
\* the ticket types the wizard of create_single_ticket offers
ticket_types ==
    <<"view_table_data", "add_entity", "perform_actions", "search_filter", "download",
      "upload_csv", "backend_architecture", "rbac_permissions", "nav_menu", "edge_cases",
      "generic_story">>

\* TicketGenerator.detect_ticket_type
detect_ticket_type(description) ==
    LET description_lower == lower(description)
    IN IF Contains(description_lower,
                   "user should be able to access and view data in the table")
       THEN "view_table_data"
       ELSE IF Contains(description_lower, "user should be able to add")
       THEN "add_entity"
       ELSE IF Contains(description_lower, "user should be able to perform actions")
       THEN "perform_actions"
       ELSE IF Contains(description_lower, "user should be able to search and filter")
               \/ Contains(description_lower, "user should be able to filter")
       THEN "search_filter"
       ELSE IF Contains(description_lower, "user should be able to download")
       THEN "download"
       ELSE IF Contains(description_lower, "user should be able to upload")
       THEN "upload_csv"
       ELSE IF Contains(description_lower, "implement backend architecture")
       THEN "backend_architecture"
       ELSE IF Contains(description_lower, "adding rbac")
               \/ Contains(description_lower, "permissions related to")
       THEN "rbac_permissions"
       ELSE IF Contains(description_lower, "user should be able to view a new menu")
       THEN "nav_menu"
       ELSE IF Contains(description_lower, "handling deleted data")
               \/ Contains(description_lower, "edge case")
       THEN "edge_cases"
       ELSE "generic_story"

\* Python `a or b` on strings; an absent (None) argument is the empty string, which
\* `or` treats alike
Or(a, b) == IF a # "" THEN a ELSE b

RECURSIVE upper(_)
\* str.upper()
upper(s) == IF s = "" THEN "" ELSE UpperChar(Head(s)) \o upper(Tail(s))

\* TicketGenerator.generate_summary
generate_summary(ticket_type, feature_name, tab_name, entity_name, scope) ==
    LET summary ==
          CASE ticket_type = "view_table_data" ->
                 "User should be able to access and view data in the table of '"
                 \o Or(tab_name, feature_name) \o "' tab"
            [] ticket_type = "add_entity" ->
                 "User should be able to add a " \o Or(entity_name, "record")
                 \o " by clicking on " \o Q \o "+ " \o Or(entity_name, "Add") \o Q \o " CTA"
            [] ticket_type = "perform_actions" ->
                 "User should be able to perform actions on " \o Or(entity_name, "records")
                 \o " in '" \o Or(tab_name, feature_name) \o "' tab"
            [] ticket_type = "search_filter" ->
                 "User should be able to Search and Filter data in '"
                 \o Or(tab_name, feature_name) \o "' tab"
            [] ticket_type = "download" ->
                 "User should be able to download all the records in " \o Q \o feature_name
                 \o Q \o " feature"
            [] ticket_type = "upload_csv" ->
                 "User should be able to upload data in bulk in " \o Q \o feature_name
                 \o Q \o " feature"
            [] ticket_type = "backend_architecture" ->
                 "BE: Implement backend architecture of " \o Q \o feature_name \o Q
            [] ticket_type = "rbac_permissions" ->
                 "Adding RBAC permissions related to " \o Q \o feature_name \o Q
                 \o " in Permission tab of Administration menu"
            [] ticket_type = "nav_menu" ->
                 "FE: User should be able to view a new menu " \o Q \o feature_name \o Q
                 \o " under " \o Q \o "Clinical" \o Q \o " in nav panel"
            [] ticket_type = "edge_cases" ->
                 "Handling deleted data edge cases in " \o feature_name
            [] OTHER -> "User should be able to " \o feature_name
    IN IF scope # "" /\ upper(scope) \in {"FE", "BE"}
          /\ ~startswith(summary, upper(scope) \o ":")
       THEN upper(scope) \o ": " \o summary
       ELSE summary

(***************************************************************************)
(* The scripts around process_transcript: main of process_transcript.py    *)
(* and WorkflowOrchestrator.run_complete_workflow of workflow.py.  A file  *)
(* is absent, present but not readable, or a file holding its data.        *)
(***************************************************************************)
Absent == [kind |-> "absent"]
Unreadable == [kind |-> "unreadable"]
File(data) == [kind |-> "file", data |-> data]

TextData(text) == [is |-> "text", text |-> text]
\* json.dump(value, f, indent=2)
JsonData(value) == [is |-> "json", value |-> value]
\* f.write(review_report)
ReportData(report) == [is |-> "report", report |-> report]

\* the transcript paths given on the command line
InputPaths == {"notes.txt", "notes.md", "notes", "a.txt.txt"}
\* --output; "" when the option is not given (args.output is None)
Outputs == {"", "out.json", "out"}
\* the transcripts a readable transcript file holds
CliTranscripts ==
    CallTranscripts \cup {"urgent for the Bar module. Build the Foo feature.",
                          "for the Bar module. Build the Foo feature. add a patient."}
\* what the user types at the review prompt
Responses == {"yes", "no", "edit", " No ", "EDIT", ""}

\* process_transcript.py line 492
DefaultOutputPath(transcript_file) == replace(transcript_file, ".txt", "_structured.json")
\* process_transcript.py line 501
ReportPath(output_path) == replace(output_path, ".json", "_review.txt")
\* workflow.py line 66
StructuredPath(transcript_path) == replace(transcript_path, ".txt", "_structured.json")
\* workflow.py line 76
ReviewPath(transcript_path) == replace(transcript_path, ".txt", "_review.txt")
\* workflow.py line 139
BatchPath(transcript_path) == replace(transcript_path, ".txt", "_tickets.json")

\* every path a run can touch
FilePaths ==
    InputPaths
    \cup UNION {{Or(o, DefaultOutputPath(p)), ReportPath(Or(o, DefaultOutputPath(p)))} :
                  <<p, o>> \in InputPaths \X Outputs}
    \cup UNION {{StructuredPath(p), ReviewPath(p), BatchPath(p)} : p \in InputPaths}

\* a file left by an earlier run
OldFile == File(TextData("old"))

FirstN(xs, n) == SubSeq(xs, 1, IF Len(xs) < n THEN Len(xs) ELSE n)

\* generate_review_report(structure): what the report shows, section by section
generate_review_report(document) ==
    [meeting_date |-> document.meeting_metadata.date,
     attendees |-> document.meeting_metadata.attendees,
     epics_found |-> Len(document.epics),
     epics |-> [i \in 1..Len(document.epics) |->
                  [epic_name |-> document.epics[i].epic_name,
                   priority |-> document.epics[i].priority,
                   tickets |-> Len(document.epics[i].tickets),
                   tabs |-> document.epics[i].tabs]],
     action_items |-> FirstN([i \in 1..Len(document.action_items) |->
                                document.action_items[i].item], 3),
     clarifications |-> [i \in 1..Len(document.clarifications_needed) |->
                           document.clarifications_needed[i].question]]

\* the results dict of run_complete_workflow, lines 46-50
NoResults == [steps_completed |-> <<>>, files_generated |-> <<>>, tickets_created |-> 0]

InitCli ==
    /\ transcript_text = ""
    /\ metadata = None
    /\ clock = Today
    /\ extraction_patterns = _load_extraction_patterns
    /\ pc = "idle"
    /\ structure = None
    /\ epics = <<>>
    /\ idx = 0
    /\ returned = <<>>
    /\ call = NoCall
    /\ \E transcript_file \in InputPaths,
          input \in {Absent, Unreadable} \cup {File(TextData(t)) : t \in CliTranscripts},
          others \in {Absent, OldFile} :
          /\ fs = [p \in FilePaths |-> IF p = transcript_file THEN input ELSE others]
          /\ \/ \E output \in Outputs, review \in BOOLEAN :
                  cli = [program |-> "main", transcript_file |-> transcript_file,
                         output |-> output, review |-> review, interactive |-> FALSE,
                         pc |-> "open", output_path |-> "", structured_path |-> "",
                         results |-> NoResults, all_tickets |-> <<>>, written |-> <<>>,
                         response |-> ""]
             \/ \E interactive \in BOOLEAN :
                  cli = [program |-> "workflow", transcript_file |-> transcript_file,
                         output |-> "", review |-> FALSE, interactive |-> interactive,
                         pc |-> "open", output_path |-> "", structured_path |-> "",
                         results |-> NoResults, all_tickets |-> <<>>, written |-> <<>>,
                         response |-> ""]

ProcessorVars == <<metadata, clock, extraction_patterns, structure, epics, idx, returned>>

\* open(path, 'w') followed by the write of data
WriteFile(path, data) == [fs EXCEPT ![path] = File(data)]

\* variant: the transcript opened in a mode that creates a missing file
OpenTranscriptCreating ==
    /\ cli.program \in {"main", "workflow"}
    /\ cli.pc = "open"
    /\ IF fs[cli.transcript_file].kind = "unreadable"
       THEN /\ cli' = [cli EXCEPT !.pc = "raised"]
            /\ UNCHANGED <<transcript_text, pc, fs>>
       ELSE /\ fs' = IF fs[cli.transcript_file].kind = "absent"
                     THEN WriteFile(cli.transcript_file, TextData(""))
                     ELSE fs
            /\ transcript_text' = fs'[cli.transcript_file].data.text
            /\ pc' = "process_transcript"
            /\ cli' = [cli EXCEPT !.pc = "process"]
    /\ UNCHANGED <<ProcessorVars, call>>

\* process_transcript.py lines 484-489 and workflow.py lines 60-63: the
\* transcript is read and handed to process_transcript; open() raises when the
\* file is absent or not readable
OpenTranscript ==
    /\ cli.program \in {"main", "workflow"}
    /\ cli.pc = "open"
    /\ IF fs[cli.transcript_file].kind = "file"
       THEN /\ transcript_text' = fs[cli.transcript_file].data.text
            /\ pc' = "process_transcript"
            /\ cli' = [cli EXCEPT !.pc = "process"]
       ELSE /\ cli' = [cli EXCEPT !.pc = "raised"]
            /\ UNCHANGED <<transcript_text, pc>>
    /\ UNCHANGED fs
    /\ UNCHANGED <<ProcessorVars, call>>

\* an exception of process_transcript leaves main and run_complete_workflow
ProcessRaised ==
    /\ cli.program \in {"main", "workflow"}
    /\ cli.pc = "process"
    /\ pc = "raised"
    /\ cli' = [cli EXCEPT !.pc = "raised"]
    /\ UNCHANGED <<transcript_text, pc, fs>>
    /\ UNCHANGED <<ProcessorVars, call>>

\* process_transcript.py lines 492-493
MainSave ==
    /\ cli.program = "main"
    /\ cli.pc = "process"
    /\ pc = "done"
    /\ LET output_path == Or(cli.output, DefaultOutputPath(cli.transcript_file))
       IN /\ fs' = WriteFile(output_path, JsonData(structure))
          /\ cli' = [cli EXCEPT !.output_path = output_path,
                                !.written = Append(@, output_path),
                                !.pc = IF cli.review THEN "review" ELSE "exit"]
    /\ UNCHANGED <<transcript_text, pc>>
    /\ UNCHANGED <<ProcessorVars, call>>

\* process_transcript.py lines 498-505
MainReview ==
    /\ cli.program = "main"
    /\ cli.pc = "review"
    /\ LET report_path == ReportPath(cli.output_path)
       IN /\ fs' = WriteFile(report_path, ReportData(generate_review_report(structure)))
          /\ cli' = [cli EXCEPT !.written = Append(@, report_path), !.pc = "exit"]
    /\ UNCHANGED <<transcript_text, pc>>
    /\ UNCHANGED <<ProcessorVars, call>>

\* TicketGenerator.generate_description: the template the ticket type selects,
\* filled with the feature name and the details of the ticket
generate_description(ticket_type, feature_name, details) ==
    [template |-> IF ticket_type \in {"backend_architecture", "view_table_data",
                                       "add_entity", "rbac_permissions", "search_filter"}
                  THEN "_template_" \o ticket_type
                  ELSE "_template_generic",
     feature_name |-> feature_name,
     details |-> details]

\* dict.get(key, default)
Get(d, key, default) == IF key \in DOMAIN d THEN d[key] ELSE default

\* WorkflowOrchestrator._generate_ticket_from_spec
_generate_ticket_from_spec(ticket_spec, epic) ==
    [type |-> "Story",
     summary |-> ticket_spec.summary,
     description |-> generate_description(ticket_spec.ticket_type, epic.epic_name,
                                          Get(ticket_spec, "details", EmptyDict)),
     priority |-> Get(ticket_spec, "priority", "High")]

RECURSIVE GenerateTicketsLastEpicFirst(_, _)
\* variant: the tickets of the later epics put before those of the earlier ones
GenerateTicketsLastEpicFirst(document_epics, i) ==
    IF i > Len(document_epics) THEN <<>>
    ELSE GenerateTicketsLastEpicFirst(document_epics, i + 1)
         \o [k \in 1..Len(document_epics[i].tickets) |->
               _generate_ticket_from_spec(document_epics[i].tickets[k], document_epics[i])]

RECURSIVE GenerateTickets(_, _)
\* workflow.py lines 107-115: the tickets of the epics from the i-th on, epic by epic
GenerateTickets(document_epics, i) ==
    IF i > Len(document_epics) THEN <<>>
    ELSE [k \in 1..Len(document_epics[i].tickets) |->
            _generate_ticket_from_spec(document_epics[i].tickets[k], document_epics[i])]
         \o GenerateTickets(document_epics, i + 1)

\* workflow.py lines 66-69
WfSaveStructured ==
    /\ cli.program = "workflow"
    /\ cli.pc = "process"
    /\ pc = "done"
    /\ LET structured_path == StructuredPath(cli.transcript_file)
       IN /\ fs' = WriteFile(structured_path, JsonData(structure))
          /\ cli' = [cli EXCEPT
                       !.structured_path = structured_path,
                       !.written = Append(@, structured_path),
                       !.results.files_generated = Append(@, structured_path),
                       !.results.steps_completed = Append(@, "transcript_processing"),
                       !.pc = "save_review"]
    /\ UNCHANGED <<transcript_text, pc>>
    /\ UNCHANGED <<ProcessorVars, call>>

\* workflow.py lines 75-79
WfSaveReview ==
    /\ cli.program = "workflow"
    /\ cli.pc = "save_review"
    /\ LET review_path == ReviewPath(cli.transcript_file)
       IN /\ fs' = WriteFile(review_path, ReportData(generate_review_report(structure)))
          /\ cli' = [cli EXCEPT !.written = Append(@, review_path),
                                !.results.files_generated = Append(@, review_path),
                                !.pc = "user_review"]
    /\ UNCHANGED <<transcript_text, pc>>
    /\ UNCHANGED <<ProcessorVars, call>>

\* variant: only the answer no ends the workflow
WfUserReviewEditProceeds ==
    /\ cli.program = "workflow"
    /\ cli.pc = "user_review"
    /\ IF cli.interactive
       THEN \E answer \in Responses :
               LET response == lower(strip(answer))
               IN cli' = [cli EXCEPT !.response = response,
                                     !.pc = IF response = "no"
                                            THEN "returned" ELSE "generate_tickets"]
       ELSE cli' = [cli EXCEPT
                      !.results.steps_completed = Append(@, "automated_review"),
                      !.pc = "generate_tickets"]
    /\ UNCHANGED <<transcript_text, pc, fs>>
    /\ UNCHANGED <<ProcessorVars, call>>

\* workflow.py lines 84-100
WfUserReview ==
    /\ cli.program = "workflow"
    /\ cli.pc = "user_review"
    /\ IF cli.interactive
       THEN \E answer \in Responses :
               LET response == lower(strip(answer))
               IN cli' = [cli EXCEPT !.response = response,
                                     !.pc = IF response \in {"no", "edit"}
                                            THEN "returned" ELSE "generate_tickets"]
       ELSE cli' = [cli EXCEPT
                      !.results.steps_completed = Append(@, "automated_review"),
                      !.pc = "generate_tickets"]
    /\ UNCHANGED <<transcript_text, pc, fs>>
    /\ UNCHANGED <<ProcessorVars, call>>

\* workflow.py lines 107-118
WfGenerateTickets ==
    /\ cli.program = "workflow"
    /\ cli.pc = "generate_tickets"
    /\ LET all_tickets == GenerateTickets(structure.epics, 1)
       IN cli' = [cli EXCEPT
                    !.all_tickets = all_tickets,
                    !.results.tickets_created = Len(all_tickets),
                    !.results.steps_completed = Append(@, "ticket_generation"),
                    !.pc = "save_batch"]
    /\ UNCHANGED <<transcript_text, pc, fs>>
    /\ UNCHANGED <<ProcessorVars, call>>

\* workflow.py lines 125-137
BatchData ==
    [project |-> "VDB",
     source_transcript |-> cli.transcript_file,
     structured_data |-> cli.structured_path,
     total_tickets |-> Len(cli.all_tickets),
     epics |-> [i \in 1..Len(structure.epics) |-> structure.epics[i].epic_name],
     tickets |-> cli.all_tickets,
     metadata |-> [generated_date |-> structure.meeting_metadata.date,
                   meeting_attendees |-> structure.meeting_metadata.attendees,
                   clarifications_needed |-> structure.clarifications_needed]]

\* workflow.py lines 139-144 and the return of line 172
WfSaveBatch ==
    /\ cli.program = "workflow"
    /\ cli.pc = "save_batch"
    /\ LET batch_path == BatchPath(cli.transcript_file)
       IN /\ fs' = WriteFile(batch_path, JsonData(BatchData))
          /\ cli' = [cli EXCEPT !.written = Append(@, batch_path),
                                !.results.files_generated = Append(@, batch_path),
                                !.results.steps_completed = Append(@, "batch_creation"),
                                !.pc = "returned"]
    /\ UNCHANGED <<transcript_text, pc>>
    /\ UNCHANGED <<ProcessorVars, call>>

NextCli ==
    \/ OpenTranscript
    \/ InitStructure
    \/ ExtractEpics
    \/ ProcessEpic
    \/ ExtractActionItems
    \/ IdentifyClarifications
    \/ ProcessRaised
    \/ MainSave
    \/ MainReview
    \/ WfSaveStructured
    \/ WfSaveReview
    \/ WfUserReview
    \/ WfGenerateTickets
    \/ WfSaveBatch

SpecCli == InitCli /\ [][NextCli]_vars

(***************************************************************************)
(* Calls of library functions on their own.  No transcript is processed    *)
(* and no script runs: `call` holds the arguments and, after the call has  *)
(* returned, the result.                                                   *)
(***************************************************************************)
MaxWords == 2

NoProcessing ==
    /\ transcript_text = ""
    /\ metadata = None
    /\ clock = Today
    /\ extraction_patterns = _load_extraction_patterns
    /\ pc = "idle"
    /\ structure = None
    /\ epics = <<>>
    /\ idx = 0
    /\ returned = <<>>
    /\ fs = NoFiles
    /\ cli = NoScript

OnlyCall == UNCHANGED <<transcript_text, pc, fs, cli, ProcessorVars>>

\* the words field names are made of
FieldWords ==
    <<"date", "name", "email", "phone", "note", "comment", "instruction", "status",
      "type", "frequency", "dose", "Date", "E-Mail", "Notes">>

RECURSIVE JoinWords(_, _)
JoinWords(words, ks) ==
    IF Len(ks) = 1 THEN words[ks[1]]
    ELSE words[ks[1]] \o " " \o JoinWords(words, Tail(ks))

GivenFieldNames ==
    {JoinWords(FieldWords, ks) :
        ks \in UNION {[1..n -> 1..Len(FieldWords)] : n \in 1..MaxWords}}

InitFieldType ==
    /\ NoProcessing
    /\ \E field_name \in GivenFieldNames :
          call = [function |-> "_guess_field_type", field_name |-> field_name,
                  returned |-> FALSE, result |-> ""]

\* TranscriptProcessor._guess_field_type(field_name)
GuessFieldType ==
    /\ call.function = "_guess_field_type"
    /\ ~call.returned
    /\ call' = [call EXCEPT !.returned = TRUE,
                            !.result = _guess_field_type(call.field_name)]
    /\ OnlyCall

NextFieldType == GuessFieldType

SpecFieldType == InitFieldType /\ [][NextFieldType]_vars

\* the ticket dict every branch of generate_epic_tickets appends
StoryTicket(summary, description) ==
    [type |-> "Story", summary |-> summary, description |-> description, priority |-> "High"]

\* ticket_generator.py lines 364-384: the two tickets of every tab
TabStories(epic_name, tabs) ==
    [k \in 1..(2 * Len(tabs)) |->
        LET tab == tabs[(k + 1) \div 2]
        IN IF k % 2 = 1
           THEN StoryTicket(generate_summary("view_table_data", epic_name, tab, "", ""),
                            generate_description("view_table_data", "", [tab_name |-> tab]))
           ELSE StoryTicket(generate_summary("search_filter", epic_name, tab, "", ""),
                            generate_description("search_filter", "", [tab_name |-> tab]))]

\* ticket_generator.py lines 331-361: the tickets the three flags ask for
FlagStories(epic_name, include_backend, include_rbac, include_nav) ==
    (IF include_backend
     THEN <<StoryTicket(generate_summary("backend_architecture", epic_name, "", "", ""),
                        generate_description("backend_architecture", epic_name, EmptyDict))>>
     ELSE <<>>)
    \o (IF include_rbac
        THEN <<StoryTicket(generate_summary("rbac_permissions", epic_name, "", "", ""),
                           generate_description("rbac_permissions", epic_name, EmptyDict))>>
        ELSE <<>>)
    \o (IF include_nav
        THEN <<StoryTicket(generate_summary("nav_menu", epic_name, "", "", ""),
                           generate_description("generic_story", "", EmptyDict))>>
        ELSE <<>>)

\* variant: the tickets of the tabs put before the tickets of the flags
generate_epic_tickets_tabs_first(epic_name, include_backend, include_rbac, include_nav, tabs) ==
    TabStories(epic_name, tabs)
    \o FlagStories(epic_name, include_backend, include_rbac, include_nav)

\* TicketGenerator.generate_epic_tickets; tabs None is the empty list here
generate_epic_tickets(epic_name, include_backend, include_rbac, include_nav, tabs) ==
    FlagStories(epic_name, include_backend, include_rbac, include_nav)
    \o TabStories(epic_name, tabs)

MaxTabs == 3

GivenTabNames == {"Active", "Old", "Due"}

GivenTabLists == UNION {[1..n -> GivenTabNames] : n \in 0..MaxTabs}

GivenEpicNames == {"Foo", "Medication Log"}

InitEpicTickets ==
    /\ NoProcessing
    /\ \E epic_name \in GivenEpicNames, include_backend \in BOOLEAN,
          include_rbac \in BOOLEAN, include_nav \in BOOLEAN, tabs \in GivenTabLists :
          call = [function |-> "generate_epic_tickets", epic_name |-> epic_name,
                  include_backend |-> include_backend, include_rbac |-> include_rbac,
                  include_nav |-> include_nav, tabs |-> tabs,
                  returned |-> FALSE, result |-> <<>>]

\* TicketGenerator.generate_epic_tickets(epic_name, include_backend, ...)
GenerateEpicTickets ==
    /\ call.function = "generate_epic_tickets"
    /\ ~call.returned
    /\ call' = [call EXCEPT
                  !.returned = TRUE,
                  !.result = generate_epic_tickets(call.epic_name, call.include_backend,
                                                   call.include_rbac, call.include_nav,
                                                   call.tabs)]
    /\ OnlyCall

NextEpicTickets == GenerateEpicTickets

SpecEpicTickets == InitEpicTickets /\ [][NextEpicTickets]_vars

\* the ten ticket types generate_summary has a template for
templated_types == SubSeq(ticket_types, 1, 10)

GivenFeatureNames == {"Foo", "Adding RBAC roles", "Edge Case Log"}

\* "" stands for an argument that is not given (None)
GivenScopes == {"", "FE", "BE", "fe"}

InitSummary ==
    /\ NoProcessing
    /\ \E t \in 1..Len(templated_types), feature_name \in GivenFeatureNames,
          tab_name \in {"", "Active"}, entity_name \in {"", "patient"},
          scope \in GivenScopes :
          call = [function |-> "generate_summary", ticket_type |-> templated_types[t],
                  feature_name |-> feature_name, tab_name |-> tab_name,
                  entity_name |-> entity_name, scope |-> scope,
                  stage |-> "called", summary |-> "", returned |-> FALSE, result |-> ""]

\* TicketGenerator.generate_summary(ticket_type, feature_name, tab_name, entity_name, scope)
GenerateSummary ==
    /\ call.function = "generate_summary"
    /\ call.stage = "called"
    /\ call' = [call EXCEPT
                  !.stage = "generated",
                  !.summary = generate_summary(call.ticket_type, call.feature_name,
                                               call.tab_name, call.entity_name, call.scope)]
    /\ OnlyCall

\* variant: the type detected from the feature name alone
DetectTicketTypeOfFeature ==
    /\ call.function = "generate_summary"
    /\ call.stage = "generated"
    /\ call' = [call EXCEPT !.stage = "detected", !.returned = TRUE,
                            !.result = detect_ticket_type(call.feature_name)]
    /\ OnlyCall

\* TicketGenerator.detect_ticket_type(summary)
DetectTicketType ==
    /\ call.function = "generate_summary"
    /\ call.stage = "generated"
    /\ call' = [call EXCEPT !.stage = "detected", !.returned = TRUE,
                            !.result = detect_ticket_type(call.summary)]
    /\ OnlyCall

NextSummary == GenerateSummary \/ DetectTicketType

SpecSummary == InitSummary /\ [][NextSummary]_vars

(***************************************************************************)
(* push_to_jira.py: JiraTicketCreator.create_from_file with create_batch.  *)
(* `cli` holds the arguments and locals of create_from_file and, in        *)
(* `issued`, the calls of create_issue made so far.                        *)
(***************************************************************************)
MaxTickets == 3

BatchFilePath == "batch.json"

\* tickets as a batch file can hold them: complete, without description, without summary
GivenTickets ==
    << [type |-> "Story", summary |-> "A", description |-> "a", priority |-> "High"],
       [summary |-> "B", description |-> "b"],
       [type |-> "Story", summary |-> "C", priority |-> "High"],
       [type |-> "Story", description |-> "d", priority |-> "High"] >>

GivenTicketLists ==
    {[k \in 1..n |-> GivenTickets[ks[k]]] :
        <<n, ks>> \in UNION {{<<n, ks>> : ks \in [1..n -> 1..Len(GivenTickets)]} :
                               n \in 0..MaxTickets}}

\* what the user types at the confirmation prompt
PushResponses == {"yes", "y", " Y ", "YES", "no", ""}

\* JiraTicketCreator.create_issue: the placeholder result
create_issue(summary, description, issue_type, priority, epic_key) ==
    LET issue_data == [cloudId |-> "b62faa91-9d69-4d74-b5d3-a6ca7ee49309",
                       projectKey |-> "VDB",
                       issueTypeName |-> issue_type,
                       summary |-> summary,
                       description |-> description,
                       additional_fields |-> [priority |-> [name |-> priority]]]
    IN [message |-> "Would create ticket (API call placeholder)",
        data |-> IF epic_key # ""
                 THEN [k \in DOMAIN issue_data \cup {"parent"} |->
                         IF k = "parent" THEN epic_key ELSE issue_data[k]]
                 ELSE issue_data]

InitPush ==
    /\ transcript_text = ""
    /\ metadata = None
    /\ clock = Today
    /\ extraction_patterns = _load_extraction_patterns
    /\ pc = "idle"
    /\ structure = None
    /\ epics = <<>>
    /\ idx = 0
    /\ returned = <<>>
    /\ call = NoCall
    /\ \/ fs = [p \in {BatchFilePath} |-> Absent]
       \/ fs = [p \in {BatchFilePath} |-> File(JsonData([project |-> "VDB"]))]
       \/ \E tickets \in GivenTicketLists :
             fs = [p \in {BatchFilePath} |->
                     File(JsonData([project |-> "VDB", tickets |-> tickets]))]
    /\ \E dry_run \in BOOLEAN, epic_key \in {"", "VDB-1"} :
          cli = [program |-> "push_to_jira", filepath |-> BatchFilePath,
                 epic_key |-> epic_key, dry_run |-> dry_run, pc |-> "load",
                 tickets |-> <<>>, response |-> "", i |-> 0,
                 results |-> [created |-> <<>>, failed |-> <<>>, total |-> 0],
                 issued |-> <<>>]

PushFrame == UNCHANGED <<transcript_text, pc, fs, ProcessorVars, call>>

\* push_to_jira.py lines 153-162: the file is loaded and the tickets previewed;
\* open() raises on a missing file and preview_tickets on a ticket without summary
CreateFromFileLoad ==
    /\ cli.program = "push_to_jira"
    /\ cli.pc = "load"
    /\ IF fs[cli.filepath].kind # "file"
       THEN cli' = [cli EXCEPT !.pc = "raised"]
       ELSE LET data == fs[cli.filepath].data.value
                tickets == Get(data, "tickets", <<>>)
            IN IF \E k \in 1..Len(tickets) : "summary" \notin DOMAIN tickets[k]
               THEN cli' = [cli EXCEPT !.tickets = tickets, !.pc = "raised"]
               ELSE cli' = [cli EXCEPT !.tickets = tickets,
                                       !.pc = IF cli.dry_run THEN "returned" ELSE "confirm"]
    /\ PushFrame

\* push_to_jira.py lines 165-172, up to the call of create_batch and its lines 100-104
CreateFromFileConfirm ==
    /\ cli.program = "push_to_jira"
    /\ cli.pc = "confirm"
    /\ \E answer \in PushResponses :
          LET response == lower(strip(answer))
          IN IF response \notin {"yes", "y"}
             THEN cli' = [cli EXCEPT !.response = response, !.pc = "returned"]
             ELSE cli' = [cli EXCEPT !.response = response, !.pc = "create_batch",
                                     !.i = 1,
                                     !.results = [created |-> <<>>, failed |-> <<>>,
                                                  total |-> Len(cli.tickets)]]
    /\ PushFrame

\* variant: the loop left at the first ticket that fails
CreateBatchStepStopping ==
    /\ cli.program = "push_to_jira"
    /\ cli.pc = "create_batch"
    /\ cli.i <= Len(cli.tickets)
    /\ LET ticket == cli.tickets[cli.i]
       IN IF "description" \in DOMAIN ticket
          THEN LET result == create_issue(ticket.summary, ticket.description,
                                          Get(ticket, "type", "Story"),
                                          Get(ticket, "priority", "Medium"), cli.epic_key)
               IN cli' = [cli EXCEPT
                            !.issued = Append(@, result),
                            !.results.created = Append(@, [summary |-> ticket.summary,
                                                           result |-> result]),
                            !.i = @ + 1]
          ELSE cli' = [cli EXCEPT
                         !.results.failed = Append(@, [summary |-> ticket.summary,
                                                       error |-> "'description'"]),
                         !.i = Len(cli.tickets) + 1]
    /\ PushFrame

\* push_to_jira.py lines 106-129, one iteration of the loop of create_batch: the
\* KeyError of a ticket without description is caught and recorded
CreateBatchStep ==
    /\ cli.program = "push_to_jira"
    /\ cli.pc = "create_batch"
    /\ cli.i <= Len(cli.tickets)
    /\ LET ticket == cli.tickets[cli.i]
       IN IF "description" \in DOMAIN ticket
          THEN LET result == create_issue(ticket.summary, ticket.description,
                                          Get(ticket, "type", "Story"),
                                          Get(ticket, "priority", "Medium"), cli.epic_key)
               IN cli' = [cli EXCEPT
                            !.issued = Append(@, result),
                            !.results.created = Append(@, [summary |-> ticket.summary,
                                                           result |-> result]),
                            !.i = @ + 1]
          ELSE cli' = [cli EXCEPT
                         !.results.failed = Append(@, [summary |-> ticket.summary,
                                                       error |-> "'description'"]),
                         !.i = @ + 1]
    /\ PushFrame

\* push_to_jira.py line 131 and lines 174-186: create_batch returns, the summary is shown
CreateFromFileSummary ==
    /\ cli.program = "push_to_jira"
    /\ cli.pc = "create_batch"
    /\ cli.i > Len(cli.tickets)
    /\ cli' = [cli EXCEPT !.pc = "returned"]
    /\ PushFrame

NextPush ==
    \/ CreateFromFileLoad
    \/ CreateFromFileConfirm
    \/ CreateBatchStep
    \/ CreateFromFileSummary

SpecPush == InitPush /\ [][NextPush]_vars

(***************************************************************************)
(* create_tickets.py: TicketCreatorCLI.main_menu.  One action is one pass  *)
(* of the menu loop with everything the chosen entry asks the user.  `cli` *)
(* holds tickets_to_create and, of the last pass, the choice and the      *)
(* answer to its confirmation.                                             *)
(***************************************************************************)
MaxBatch == 2

ExportPath == "/mnt/user-data/outputs/tickets_batch.json"

\* the directory of the export file does not exist
NoDirectory == [kind |-> "nodir"]

\* what the user types at a yes/no prompt
YesNoAnswers == {"", "y", "n", "maybe"}

\* TicketCreatorCLI.get_yes_no
get_yes_no(answer, default) ==
    LET response == lower(strip(answer))
    IN IF response = "" THEN default ELSE response \in {"y", "yes", "true", "1"}

\* TicketCreatorCLI.get_input without options
get_input(answer, default) == IF strip(answer) # "" THEN strip(answer) ELSE default

\* what the user types at the ticket type prompt of create_single_ticket
TypeChoices == {"7", "0", "12", "abc"}

IsDecimal(s) == s # "" /\ \A k \in 1..Len(s) : CharAt(s, k) \in DigitSet

RECURSIVE int(_)
\* int(s) of a string of digits
int(s) ==
    IF s = "" THEN 0
    ELSE 10 * int(SubSeq(s, 1, Len(s) - 1))
         + (CHOOSE d \in 0..9 : CharAt(Digits, d + 1) = CharAt(s, Len(s)))

\* create_tickets.py lines 95-96: int() raises ValueError, the index IndexError; a
\* negative index counts from the end of the list
TypeChoiceRaises(choice) ==
    \/ ~IsDecimal(strip(choice))
    \/ int(strip(choice)) - 1 >= Len(ticket_types)

TypeOfChoice(choice) ==
    LET index == int(strip(choice)) - 1
    IN IF index < 0 THEN ticket_types[Len(ticket_types) + index + 1]
       ELSE ticket_types[index + 1]

\* create_tickets.py lines 98-126: the ticket create_single_ticket offers
SingleTicket(ticket_type_key, feature_answer, scope, priority) ==
    LET feature_name == get_input(feature_answer, "My Feature")
        tab_name == IF ticket_type_key \in {"view_table_data", "search_filter",
                                             "perform_actions"}
                    THEN get_input("", feature_name) ELSE ""
        entity_name == IF ticket_type_key = "add_entity" THEN get_input("", "record") ELSE ""
        given_scope == IF ticket_type_key \in {"backend_architecture", "nav_menu",
                                                "rbac_permissions"}
                          /\ scope # "Full-stack"
                       THEN scope ELSE ""
        kwargs == IF tab_name # "" THEN [tab_name |-> tab_name]
                  ELSE IF entity_name # "" THEN [entity_name |-> entity_name]
                  ELSE IF given_scope # "" THEN [scope |-> given_scope]
                  ELSE EmptyDict
    IN [type |-> "Story",
        summary |-> generate_summary(ticket_type_key, feature_name, tab_name, entity_name,
                                     given_scope),
        description |-> generate_description(ticket_type_key, feature_name, kwargs),
        priority |-> priority]

InitMenu ==
    /\ transcript_text = ""
    /\ metadata = None
    /\ clock = Today
    /\ extraction_patterns = _load_extraction_patterns
    /\ pc = "idle"
    /\ structure = None
    /\ epics = <<>>
    /\ idx = 0
    /\ returned = <<>>
    /\ call = NoCall
    /\ fs \in {[p \in {ExportPath} |-> Absent], [p \in {ExportPath} |-> NoDirectory]}
    /\ cli = [program |-> "create_tickets", pc |-> "menu", tickets_to_create |-> <<>>,
              choice |-> "", confirmed |-> FALSE]

MenuFrame == UNCHANGED <<transcript_text, pc, ProcessorVars, call>>

\* choice 1, create_single_ticket
MenuCreateSingle ==
    /\ cli.program = "create_tickets"
    /\ cli.pc = "menu"
    /\ \E type_choice \in TypeChoices :
          IF TypeChoiceRaises(type_choice)
          THEN cli' = [cli EXCEPT !.choice = "1", !.confirmed = FALSE,
                                  !.pc = "raised"]
          ELSE \E feature_answer \in {""}, scope \in {"BE", "Full-stack"},
                  priority \in {"Low"}, answer \in YesNoAnswers :
                  LET ticket == SingleTicket(TypeOfChoice(type_choice), feature_answer,
                                             scope, priority)
                      confirmed == get_yes_no(answer, TRUE)
                  IN /\ confirmed => Len(cli.tickets_to_create) < MaxBatch
                     /\ cli' = [cli EXCEPT
                                  !.choice = "1", !.confirmed = confirmed,
                                  !.tickets_to_create =
                                      IF confirmed THEN Append(@, ticket) ELSE @]
    /\ UNCHANGED fs
    /\ MenuFrame

\* choice 2, create_epic_tickets
MenuCreateEpic ==
    /\ cli.program = "create_tickets"
    /\ cli.pc = "menu"
    /\ \E backend \in {"", "n"}, rbac \in {"n"}, nav \in {""},
          has_tabs \in {"", "y"}, answer \in YesNoAnswers :
          LET tabs == IF get_yes_no(has_tabs, FALSE) THEN <<"Active", "Old">> ELSE <<>>
              tickets == generate_epic_tickets(get_input("Foo", "New Feature"),
                                               get_yes_no(backend, TRUE),
                                               get_yes_no(rbac, TRUE),
                                               get_yes_no(nav, TRUE), tabs)
              confirmed == get_yes_no(answer, TRUE)
          IN /\ confirmed => Len(cli.tickets_to_create) < MaxBatch
             /\ cli' = [cli EXCEPT
                          !.choice = "2", !.confirmed = confirmed,
                          !.tickets_to_create = IF confirmed THEN @ \o tickets ELSE @]
    /\ UNCHANGED fs
    /\ MenuFrame

\* choice 3, review_batch
MenuReview ==
    /\ cli.program = "create_tickets"
    /\ cli.pc = "menu"
    /\ cli' = [cli EXCEPT !.choice = "3", !.confirmed = FALSE]
    /\ UNCHANGED fs
    /\ MenuFrame

\* choice 4, export_batch: open() raises when the output directory is missing
MenuExport ==
    /\ cli.program = "create_tickets"
    /\ cli.pc = "menu"
    /\ IF cli.tickets_to_create = <<>>
       THEN /\ cli' = [cli EXCEPT !.choice = "4", !.confirmed = FALSE]
            /\ UNCHANGED fs
       ELSE IF fs[ExportPath] = NoDirectory
       THEN /\ cli' = [cli EXCEPT !.choice = "4", !.confirmed = FALSE,
                                   !.pc = "raised"]
            /\ UNCHANGED fs
       ELSE /\ fs' = WriteFile(ExportPath,
                               JsonData([tickets |-> cli.tickets_to_create,
                                         count |-> Len(cli.tickets_to_create),
                                         project |-> "VDB"]))
            /\ cli' = [cli EXCEPT !.choice = "4", !.confirmed = FALSE]
    /\ MenuFrame

\* choice 5, clear_batch
MenuClear ==
    /\ cli.program = "create_tickets"
    /\ cli.pc = "menu"
    /\ \E answer \in YesNoAnswers :
          LET confirmed == get_yes_no(answer, FALSE)
          IN cli' = [cli EXCEPT !.choice = "5", !.confirmed = confirmed,
                                !.tickets_to_create = IF confirmed THEN <<>> ELSE @]
    /\ UNCHANGED fs
    /\ MenuFrame

\* choice 6
MenuExit ==
    /\ cli.program = "create_tickets"
    /\ cli.pc = "menu"
    /\ \/ /\ cli.tickets_to_create = <<>>
          /\ cli' = [cli EXCEPT !.choice = "6", !.confirmed = FALSE,
                                 !.pc = "exited"]
       \/ /\ cli.tickets_to_create # <<>>
          /\ \E answer \in YesNoAnswers :
                LET confirmed == get_yes_no(answer, FALSE)
                IN cli' = [cli EXCEPT !.choice = "6", !.confirmed = confirmed,
                                      !.pc = IF confirmed THEN "exited" ELSE "menu"]
    /\ UNCHANGED fs
    /\ MenuFrame

\* any other choice
MenuInvalid ==
    /\ cli.program = "create_tickets"
    /\ cli.pc = "menu"
    /\ \E choice \in {"", "7", "x"} :
          cli' = [cli EXCEPT !.choice = choice, !.confirmed = FALSE]
    /\ UNCHANGED fs
    /\ MenuFrame

NextMenu ==
    \/ MenuCreateSingle
    \/ MenuCreateEpic
    \/ MenuReview
    \/ MenuExport
    \/ MenuClear
    \/ MenuExit
    \/ MenuInvalid

SpecMenu == InitMenu /\ [][NextMenu]_vars

(***************************************************************************)
(* Properties.                                                             *)
(***************************************************************************)
Returned == pc = "done"

\* the epics of the document under construction (none before line 86 has run)
DocEpics == IF pc \in {"process_transcript", "raised"} THEN <<>> ELSE structure.epics

TypesOf(tickets) == [k \in 1..Len(tickets) |-> tickets[k].ticket_type]

\* C1: process_transcript never raises, and every call returns a document with the
\* keys meeting_metadata, epics, action_items and clarifications_needed.
C1_NeverRaises ==
    /\ pc # "raised"
    /\ Returned => DOMAIN structure =
                     {"meeting_metadata", "epics", "action_items", "clarifications_needed"}

\* no rule of the epic_name category matches anywhere in the transcript
NoEpicRuleMatches(text) ==
    \A p \in 1..Len(_load_extraction_patterns.epic_name) :
        ~SearchFrom(lower(text), Compile(_load_extraction_patterns.epic_name[p]), 1).ok

\* C2: when no epic_name rule matches the transcript, the returned document has
\* exactly one epic and it is named "Unnamed Feature".
C2_FallbackEpic ==
    (Returned /\ NoEpicRuleMatches(transcript_text))
        => /\ Len(structure.epics) = 1
           /\ structure.epics[1].epic_name = "Unnamed Feature"

C2_Witness ==
    /\ Returned
    /\ NoEpicRuleMatches(transcript_text)
    /\ Contains(transcript_text, "tabs")
    /\ Len(structure.epics) = 1

\* the names the epic_name rules capture, rule by rule and match by match
RECURSIVE EpicNameStream(_, _)
EpicNameStream(text, p) ==
    IF p > Len(_load_extraction_patterns.epic_name) THEN <<>>
    ELSE LET ms == FindFrom(lower(text), Compile(_load_extraction_patterns.epic_name[p]), 1)
         IN [k \in 1..Len(ms) |-> strip(group(text, ms[k], 1))]
            \o EpicNameStream(text, p + 1)

FirstIndex(x, xs) == CHOOSE i \in 1..Len(xs) : xs[i] = x /\ \A j \in 1..(i - 1) : xs[j] # x

C4_BackendFirst ==
    \A e \in 1..Len(DocEpics) :
        /\ Len(DocEpics[e].tickets) >= 1
        /\ DocEpics[e].tickets[1].ticket_type = "backend_architecture"
        /\ DocEpics[e].tickets[1].priority = "High"

C4_Witness ==
    /\ Returned
    /\ Len(structure.epics) = 2
    /\ Len(structure.epics[2].tickets) >= 2

KnownTypes == {ticket_types[k] : k \in 1..Len(ticket_types)}

\* C5: the ticket_type of every ticket of the document is one of the eleven kinds,
\* and so is what detect_ticket_type returns for the transcript, every epic
\* description and every ticket summary of a returned document.
C5_KnownTicketTypes ==
    /\ Cardinality(KnownTypes) = 11
    /\ \A e \in 1..Len(DocEpics) :
          \A k \in 1..Len(DocEpics[e].tickets) :
              DocEpics[e].tickets[k].ticket_type \in KnownTypes
    /\ Returned =>
          /\ detect_ticket_type(transcript_text) \in KnownTypes
          /\ \A e \in 1..Len(structure.epics) :
                /\ detect_ticket_type(structure.epics[e].epic_description) \in KnownTypes
                /\ \A k \in 1..Len(structure.epics[e].tickets) :
                      detect_ticket_type(structure.epics[e].tickets[k].summary)
                          \in KnownTypes

C5_Witness ==
    /\ Returned
    /\ \E e \in 1..Len(structure.epics) :
          {"backend_architecture", "rbac_permissions", "nav_menu", "view_table_data",
           "search_filter", "add_entity"}
              \subseteq {structure.epics[e].tickets[k].ticket_type :
                           k \in 1..Len(structure.epics[e].tickets)}

RECURSIVE ExpectedTabTypes(_, _)
ExpectedTabTypes(n, with_search) ==
    IF n = 0 THEN <<>>
    ELSE <<"view_table_data">> \o (IF with_search THEN <<"search_filter">> ELSE <<>>)
         \o ExpectedTabTypes(n - 1, with_search)

B2N(b) == IF b THEN 1 ELSE 0

\* C6: the ticket types of every epic are backend_architecture, then rbac_permissions
\* if an RBAC keyword is present, then nav_menu if a navigation keyword is present,
\* then per tab view_table_data followed by search_filter if a search keyword is
\* present, then add_entity if a creation keyword is present; every ticket has
\* priority High and the count is 1 + [rbac] + [nav] + |tabs| * (1 + [search]) + [add].
C6_TicketSequence ==
    Returned =>
        \A e \in 1..Len(structure.epics) :
        \A text_lower \in {lower(transcript_text)} :
            LET has_rbac == ContainsAny(text_lower, <<"permission", "access", "role", "only",
                                                  "can view", "can edit", "restricted">>)
                has_nav == ContainsAny(text_lower, <<"menu", "navigation", "nav bar", "sidebar">>)
                has_search == ContainsAny(text_lower, <<"search", "filter", "find">>)
                has_add == ContainsAny(text_lower, <<"add", "create", "new", "form">>)
                tickets == structure.epics[e].tickets
            IN /\ TypesOf(tickets) =
                    <<"backend_architecture">>
                    \o (IF has_rbac THEN <<"rbac_permissions">> ELSE <<>>)
                    \o (IF has_nav THEN <<"nav_menu">> ELSE <<>>)
                    \o ExpectedTabTypes(Len(structure.epics[e].tabs), has_search)
                    \o (IF has_add THEN <<"add_entity">> ELSE <<>>)
               /\ \A k \in 1..Len(tickets) : tickets[k].priority = "High"
               /\ Len(tickets) = 1 + B2N(has_rbac) + B2N(has_nav)
                                 + Len(structure.epics[e].tabs) * (1 + B2N(has_search)) + B2N(has_add)
               /\ \A k \in 1..Len(tickets) :
                     tickets[k].ticket_type \in {"view_table_data", "search_filter"} =>
                        \E t \in 1..Len(structure.epics[e].tabs) :
                            tickets[k].details.tab_name = structure.epics[e].tabs[t]

\* all four conditions hold and the epic has two tabs: 1 + 1 + 1 + 2 * 2 + 1 tickets
C6_Witness ==
    /\ Returned
    /\ Len(structure.epics[1].tabs) = 2
    /\ Len(structure.epics[1].tickets) = 8
    /\ TypesOf(structure.epics[1].tickets) =
         <<"backend_architecture", "rbac_permissions", "nav_menu", "view_table_data",
           "search_filter", "view_table_data", "search_filter", "add_entity">>

\* the reserved character that marks a placeholder such as "<Field 1>"
PlaceholderSentinel == "<"

NeedsClarification(ticket) ==
    \/ /\ ticket.ticket_type = "add_entity"
       /\ \E k \in 1..Len(ticket.details.fields) :
             Contains(ticket.details.fields[k].name, PlaceholderSentinel)
    \/ /\ ticket.ticket_type = "view_table_data"
       /\ \E k \in 1..Len(ticket.details.columns) :
             Contains(ticket.details.columns[k], PlaceholderSentinel)

RECURSIVE AllTickets(_, _)
\* the tickets of the document in epic order, then ticket order
AllTickets(eps, e) ==
    IF e > Len(eps) THEN <<>> ELSE eps[e].tickets \o AllTickets(eps, e + 1)

C9_AddEntity ==
    Returned =>
        \A e \in 1..Len(structure.epics) :
        \A text_lower \in {lower(transcript_text)} :
            LET types == TypesOf(structure.epics[e].tickets)
            IN IF Contains(text_lower, "add") \/ Contains(text_lower, "create")
                  \/ Contains(text_lower, "new") \/ Contains(text_lower, "form")
               THEN /\ Cardinality({k \in 1..Len(types) : types[k] = "add_entity"}) = 1
                    /\ types[Len(types)] = "add_entity"
               ELSE \A k \in 1..Len(types) : types[k] # "add_entity"

\* "form" is the only creation keyword of the transcript, and there are tabs
C9_Witness ==
    /\ Returned
    /\ Contains(transcript_text, "form")
    /\ ~Contains(lower(transcript_text), "add")
    /\ ~Contains(lower(transcript_text), "create")
    /\ ~Contains(lower(transcript_text), "new")
    /\ Len(structure.epics[1].tickets) >= 3
    /\ structure.epics[1].tickets[Len(structure.epics[1].tickets)].ticket_type = "add_entity"

\* C10: the priority of every epic is Highest if the transcript contains highest,
\* critical or urgent; otherwise High if it contains "high priority" or "important";
\* otherwise Low if it contains "low priority"; otherwise Medium.
C10_PriorityTiers ==
    Returned =>
        \A e \in 1..Len(structure.epics) :
        \A t \in {lower(transcript_text)} :
            LET p == structure.epics[e].priority
            IN /\ p \in {"Highest", "High", "Medium", "Low"}
               /\ (Contains(t, "highest") \/ Contains(t, "critical") \/ Contains(t, "urgent"))
                     => p = "Highest"
               /\ (Contains(t, "critical") /\ Contains(t, "low priority")) => p = "Highest"
               /\ (~(Contains(t, "highest") \/ Contains(t, "critical") \/ Contains(t, "urgent"))
                   /\ (Contains(t, "high priority") \/ Contains(t, "important")))
                     => p = "High"
               /\ (~(Contains(t, "highest") \/ Contains(t, "critical") \/ Contains(t, "urgent"))
                   /\ ~(Contains(t, "high priority") \/ Contains(t, "important"))
                   /\ Contains(t, "low priority"))
                     => p = "Low"
               /\ (~(Contains(t, "highest") \/ Contains(t, "critical") \/ Contains(t, "urgent"))
                   /\ ~(Contains(t, "high priority") \/ Contains(t, "important"))
                   /\ ~Contains(t, "low priority"))
                     => p = "Medium"

\* "low priority" first and "critical" after it
C10_Witness ==
    /\ Returned
    /\ startswith(transcript_text, "low priority.")
    /\ Contains(transcript_text, "critical")
    /\ structure.epics[1].priority = "Highest"

\* the calls that have ended, oldest first
EndedCalls == returned \o (IF pc \in {"done", "raised"} THEN <<CallRecord>> ELSE <<>>)

RECURSIVE RbacStream(_, _)
\* what the rbac rules capture, rule by rule and match by match
RbacStream(text, p) ==
    IF p > Len(_load_extraction_patterns.rbac) THEN <<>>
    ELSE LET ms == FindFrom(lower(text), Compile(_load_extraction_patterns.rbac[p]), 1)
         IN [k \in 1..Len(ms) |-> [role |-> capitalize(group(text, ms[k], 1)),
                                   action |-> strip(group(text, ms[k], 2))]]
            \o RbacStream(text, p + 1)

\* the "only <role> can <action>" phrases of the transcript: the matches of the
\* second rbac rule
OnlyPhrases(text) ==
    LET ms == FindFrom(lower(text), Compile(_load_extraction_patterns.rbac[2]), 1)
    IN [k \in 1..Len(ms) |-> [role |-> capitalize(group(text, ms[k], 1)),
                              action |-> strip(group(text, ms[k], 2))]]

RbacTicketsOf(epic) == SelectSeq(epic.tickets, LAMBDA t : t.ticket_type = "rbac_permissions")

\* C11: when the transcript has a phrase "only <role> can <action>", every epic has
\* an rbac_permissions ticket whose rbac map has the capitalized role with the action
\* text among its actions; and the actions of every actor are the captures of all
\* matches of all rbac rules for that actor, one entry per match, in match order.
C11_RbacAccumulates ==
    Returned =>
        \A stream \in {RbacStream(transcript_text, 1)} :
        \A phrases \in {OnlyPhrases(transcript_text)} :
        \A e \in 1..Len(structure.epics) :
            /\ phrases # <<>> => Len(RbacTicketsOf(structure.epics[e])) = 1
            /\ Contains(lower(transcript_text), "only nurses can edit it.") =>
                  \E t \in 1..Len(structure.epics[e].tickets) :
                      /\ structure.epics[e].tickets[t].ticket_type = "rbac_permissions"
                      /\ \E i \in 1..Len(structure.epics[e].tickets[t].details.rbac) :
                            /\ structure.epics[e].tickets[t].details.rbac[i].role = "Nurses"
                            /\ InSeq("edit it",
                                     structure.epics[e].tickets[t].details.rbac[i].actions)
            /\ \A t \in 1..Len(RbacTicketsOf(structure.epics[e])) :
                  LET rbac == RbacTicketsOf(structure.epics[e])[t].details.rbac
                  IN /\ \A k \in 1..Len(phrases) :
                           \E i \in 1..Len(rbac) :
                               /\ rbac[i].role = phrases[k].role
                               /\ InSeq(phrases[k].action, rbac[i].actions)
                     /\ \A k \in 1..Len(stream) :
                           \E i \in 1..Len(rbac) : rbac[i].role = stream[k].role
                     /\ \A i \in 1..Len(rbac) :
                           rbac[i].actions =
                              [k \in 1..Len(SelectSeq(stream,
                                                      LAMBDA m : m.role = rbac[i].role)) |->
                                 SelectSeq(stream, LAMBDA m : m.role = rbac[i].role)[k].action]

\* two actors, each with the entries of both rules
C11_Witness ==
    /\ Returned
    /\ Len(RbacTicketsOf(structure.epics[1])) = 1
    /\ Len(RbacTicketsOf(structure.epics[1])[1].details.rbac) = 2
    /\ RbacTicketsOf(structure.epics[1])[1].details.rbac[1].role = "Nurses"
    /\ RbacTicketsOf(structure.epics[1])[1].details.rbac[1].actions = <<"edit it", "edit it">>
    /\ RbacTicketsOf(structure.epics[1])[1].details.rbac[2].role = "Admins"

AttendeeLabels == {"attendees:", "participants:"}

\* the position just after the first attendees:/participants: label, 0 without one
FirstLabelEnd(text) ==
    LET t == lower(text)
        at(i) == \E l \in AttendeeLabels :
                    i + Len(l) - 1 <= Len(t) /\ SubSeq(t, i, i + Len(l) - 1) = l
    IN IF \A i \in 1..Len(t) : ~at(i) THEN 0
       ELSE LET i == CHOOSE i \in 1..Len(t) : at(i) /\ \A j \in 1..(i - 1) : ~at(j)
            IN i + Len(CHOOSE l \in AttendeeLabels :
                           i + Len(l) - 1 <= Len(t) /\ SubSeq(t, i, i + Len(l) - 1) = l)

\* the text from pos up to the end of the line
RestOfLine(text, pos) ==
    IF \A i \in pos..Len(text) : CharAt(text, i) # "\n" THEN SubSeq(text, pos, Len(text))
    ELSE SubSeq(text, pos,
                (CHOOSE i \in pos..Len(text) :
                    /\ CharAt(text, i) = "\n"
                    /\ \A j \in pos..(i - 1) : CharAt(text, j) # "\n") - 1)

RECURSIVE TokensOf(_, _, _)
\* s cut at every comma and semicolon
TokensOf(s, from, i) ==
    IF i > Len(s) THEN <<SubSeq(s, from, Len(s))>>
    ELSE IF CharAt(s, i) \in {",", ";"}
         THEN <<SubSeq(s, from, i - 1)>> \o TokensOf(s, i + 1, i + 1)
         ELSE TokensOf(s, from, i + 1)

ExpectedAttendees(text) ==
    IF FirstLabelEnd(text) = 0 THEN <<>>
    ELSE LET tokens == TokensOf(RestOfLine(text, FirstLabelEnd(text)), 1, 1)
         IN SelectSeq([k \in 1..Len(tokens) |-> strip(tokens[k])], LAMBDA a : a # "")

\* C12: the attendees are the tokens of the text between the first
\* attendees:/participants: label and the end of its line, cut at commas and
\* semicolons, trimmed, without the empty ones, in order; none without a label.
C12_Attendees ==
    (Returned /\ ~Truthy(metadata)) =>
        structure.meeting_metadata.attendees = ExpectedAttendees(transcript_text)

\* the run of white space at i is followed by the word "and" and more white space:
\* the position after that white space, else 0
RECURSIVE SkipSpace(_, _)
SkipSpace(s, i) == IF i <= Len(s) /\ CharAt(s, i) \in SpaceSet THEN SkipSpace(s, i + 1) ELSE i

AndAfter(s, i) ==
    LET j == SkipSpace(s, i)
    IN IF j + 3 <= Len(s) /\ SubSeq(s, j, j + 2) = "and" /\ CharAt(s, j + 3) \in SpaceSet
       THEN SkipSpace(s, j + 3) ELSE 0

RECURSIVE ListTokens(_, _, _)
\* s cut at every comma, semicolon and word "and"
ListTokens(s, from, i) ==
    IF i > Len(s) THEN <<SubSeq(s, from, Len(s))>>
    ELSE IF CharAt(s, i) \in {",", ";"}
         THEN <<SubSeq(s, from, i - 1)>> \o ListTokens(s, i + 1, i + 1)
    ELSE IF CharAt(s, i) \in SpaceSet /\ AndAfter(s, i) # 0
         THEN <<SubSeq(s, from, i - 1)>> \o ListTokens(s, AndAfter(s, i), AndAfter(s, i))
    ELSE ListTokens(s, from, i + 1)

ListItems(s) ==
    LET tokens == ListTokens(s, 1, 1)
    IN SelectSeq([k \in 1..Len(tokens) |-> strip(tokens[k])], LAMBDA a : a # "")

RECURSIVE SpanItems(_, _, _)
\* the items of the spans that the matches capture, match by match
SpanItems(text, ms, k) ==
    IF k > Len(ms) THEN <<>>
    ELSE ListItems(group(text, ms[k], 1)) \o SpanItems(text, ms, k + 1)

RECURSIVE CategoryItems(_, _, _)
\* the items of all matches of all rules of a category, rule by rule
CategoryItems(text, pats, p) ==
    IF p > Len(pats) THEN <<>>
    ELSE SpanItems(text, FindFrom(lower(text), pats[p], 1), 1)
         \o CategoryItems(text, pats, p + 1)

NoDuplicates(xs) == \A i, j \in 1..Len(xs) : i # j => xs[i] # xs[j]

\* C14: no value appears twice in the tab list of an epic, in the columns of a
\* view_table_data ticket or in the action list of an actor.
C14_Deduplicated ==
    Returned =>
        \A e \in 1..Len(structure.epics) :
            /\ NoDuplicates(structure.epics[e].tabs)
            /\ \A t \in 1..Len(structure.epics[e].tickets) :
                  LET ticket == structure.epics[e].tickets[t]
                  IN /\ ticket.ticket_type = "view_table_data" =>
                           NoDuplicates(ticket.details.columns)
                     /\ ticket.ticket_type = "rbac_permissions" =>
                           \A i \in 1..Len(ticket.details.rbac) :
                               NoDuplicates(ticket.details.rbac[i].actions)

PlaceholderColumns == <<"<Column 1>", "<Column 2>", "<Column 3>">>
PlaceholderFields == <<[name |-> "<Field 1>", type |-> "Text field", mandatory |-> TRUE]>>

TemplateSummary(epic, ticket) ==
    generate_summary(ticket.ticket_type, epic.epic_name,
                     IF ticket.ticket_type \in {"view_table_data", "search_filter"}
                     THEN ticket.details.tab_name ELSE "",
                     IF ticket.ticket_type = "add_entity"
                     THEN ticket.details.entity_name ELSE "",
                     "")

\* C16: the summary of every ticket of the document equals
\* generate_summary(ticket_type, F, tab_name=T, entity_name=E) for the epic name F,
\* the ticket's tab name T and entity name E.
C16_TemplateSummaries ==
    Returned =>
        \A e \in 1..Len(structure.epics) :
        \A t \in 1..Len(structure.epics[e].tickets) :
            structure.epics[e].tickets[t].summary
               = TemplateSummary(structure.epics[e], structure.epics[e].tickets[t])

\* with `wanted`, every view_table_data ticket is directly followed by a
\* search_filter ticket of the same tab and there is no other search_filter ticket;
\* without, there is no search_filter ticket
SearchTicketsFollow(tickets, wanted) ==
    /\ \A t \in 1..Len(tickets) :
          tickets[t].ticket_type = "search_filter" =>
             /\ wanted
             /\ t > 1
             /\ tickets[t - 1].ticket_type = "view_table_data"
             /\ tickets[t - 1].details.tab_name = tickets[t].details.tab_name
    /\ \A t \in 1..Len(tickets) :
          (tickets[t].ticket_type = "view_table_data" /\ wanted) =>
             /\ t < Len(tickets)
             /\ tickets[t + 1].ticket_type = "search_filter"
             /\ tickets[t + 1].details.tab_name = tickets[t].details.tab_name

\* C17 as stated: a search_filter ticket is emitted for a tab if and only if the
\* transcript contains "search" or "filter" (case-insensitively); it directly
\* follows the view_table_data ticket of the tab and has the same tab_name.
C17_SearchOrFilter ==
    Returned =>
        \A t \in {lower(transcript_text)} :
        \A e \in 1..Len(structure.epics) :
            SearchTicketsFollow(structure.epics[e].tickets,
                                Contains(t, "search") \/ Contains(t, "filter"))

\* C17 amended: a search_filter ticket is emitted for a tab if and only if the
\* transcript contains "search", "filter" or "find" (case-insensitively); it
\* directly follows the view_table_data ticket of the tab and has the same tab_name.
C17_SearchFilterOrFind ==
    Returned =>
        \A t \in {lower(transcript_text)} :
        \A e \in 1..Len(structure.epics) :
            SearchTicketsFollow(structure.epics[e].tickets,
                                Contains(t, "search") \/ Contains(t, "filter")
                                \/ Contains(t, "find"))

\* "find" is the only search keyword and both tabs get their search_filter ticket
C17_Witness ==
    /\ Returned
    /\ Contains(lower(transcript_text), "find")
    /\ ~Contains(lower(transcript_text), "search")
    /\ ~Contains(lower(transcript_text), "filter")
    /\ TypesOf(structure.epics[1].tickets) =
         <<"backend_architecture", "view_table_data", "search_filter",
           "view_table_data", "search_filter">>
    /\ structure.epics[1].tickets[5].details.tab_name = "Old"
(***************************************************************************)
(* C18: when the transcript file is absent or unreadable, main and         *)
(* run_complete_workflow fail before any output is written: every step     *)
(* taken while the transcript is missing leaves every file as it was and   *)
(* ends in the error that leaves the script.                               *)
(***************************************************************************)
InputMissing == fs[cli.transcript_file].kind # "file"

C18_InputMissing ==
    [][InputMissing => /\ fs' = fs
                       /\ cli'.written = <<>>
                       /\ cli'.pc = "raised"]_vars

\* both scripts have failed on a missing transcript, next to files of an earlier run
C18_Witness ==
    /\ cli.pc = "raised"
    /\ cli.program = "workflow"
    /\ fs[cli.transcript_file].kind = "absent"
    /\ fs[StructuredPath(cli.transcript_file)] = OldFile

(***************************************************************************)
(* C19: when no output path is given, main writes the structured document  *)
(* to the input path with its extension swapped to the structured-output   *)
(* suffix, whatever the extension of the input path (or none), so the      *)
(* default output path is never the input path itself.                     *)
(***************************************************************************)
\* the path without its last extension (the paths here have no directory part)
Stem(path) ==
    LET dots == {i \in 2..Len(path) : CharAt(path, i) = "."}
    IN IF dots = {} THEN path
       ELSE SubSeq(path, 1, (CHOOSE i \in dots : \A j \in dots : j <= i) - 1)

SwapExtension(path) == Stem(path) \o "_structured.json"

MainSavedByDefault ==
    /\ cli.program = "main"
    /\ cli.output = ""
    /\ cli.pc \in {"review", "exit"}

C19_DefaultOutput ==
    MainSavedByDefault =>
        /\ cli.written[1] = SwapExtension(cli.transcript_file)
        /\ cli.written[1] # cli.transcript_file

(***************************************************************************)
(* C20: in a document with several epics every epic has the same priority, *)
(* the one computed from the whole transcript; no epic's priority comes    *)
(* from the text about that epic alone.                                    *)
(***************************************************************************)
C20_OnePriority ==
    \A i \in 1..Len(DocEpics) :
        /\ DocEpics[i].priority = _extract_priority(transcript_text)
        /\ \A j \in 1..Len(DocEpics) : DocEpics[j].priority = DocEpics[i].priority

\* two epics share the priority of a keyword that only the sentence of one of them has
C20_Witness ==
    /\ Returned
    /\ Len(DocEpics) >= 2
    /\ \E i \in 1..Len(DocEpics) :
          /\ Contains(lower(DocEpics[i].epic_description), lower(DocEpics[i].epic_name))
          /\ _extract_priority(DocEpics[i].epic_description) # DocEpics[i].priority

(***************************************************************************)
(* C21: the meeting date is the date that follows the first date: or       *)
(* meeting: label followed by YYYY-MM-DD or M/D/YYYY; without such a label *)
(* it is the current processing date; non-empty metadata given by the      *)
(* caller is used unchanged, with nothing extracted from the transcript.   *)
(***************************************************************************)
DateLabels == {"date", "meeting"}

AllDigits(t, a, b) == b <= Len(t) /\ \A k \in a..b : CharAt(t, k) \in DigitSet

IsAt(t, i, word) == i + Len(word) - 1 <= Len(t) /\ SubSeq(t, i, i + Len(word) - 1) = word

\* the position after the date that starts at j, 0 when no date starts there
DateEnd(t, j) ==
    IF /\ AllDigits(t, j, j + 3) /\ IsAt(t, j + 4, "-") /\ AllDigits(t, j + 5, j + 6)
       /\ IsAt(t, j + 7, "-") /\ AllDigits(t, j + 8, j + 9)
    THEN j + 10
    ELSE LET ends == {j + m + 1 + d + 5 : <<m, d>> \in
                        {md \in (1..2) \X (1..2) :
                            /\ AllDigits(t, j, j + md[1] - 1)
                            /\ IsAt(t, j + md[1], "/")
                            /\ AllDigits(t, j + md[1] + 1, j + md[1] + md[2])
                            /\ IsAt(t, j + md[1] + md[2] + 1, "/")
                            /\ AllDigits(t, j + md[1] + md[2] + 2, j + md[1] + md[2] + 5)}}
         IN IF ends = {} THEN 0 ELSE CHOOSE e \in ends : TRUE

\* the start of the date behind the label at i, 0 when i starts no label with a date
LabelledDateStart(t, i) ==
    IF \A l \in DateLabels : ~IsAt(t, i, l) THEN 0
    ELSE LET l == CHOOSE l \in DateLabels : IsAt(t, i, l)
             colon == SkipSpace(t, i + Len(l))
             j == SkipSpace(t, colon + 1)
         IN IF IsAt(t, colon, ":") /\ DateEnd(t, j) # 0 THEN j ELSE 0

ExpectedDate(text) ==
    LET t == lower(text)
        labelled == {i \in 1..Len(t) : LabelledDateStart(t, i) # 0}
    IN IF labelled = {} THEN strftime(clock)
       ELSE LET j == LabelledDateStart(t, CHOOSE i \in labelled : \A k \in labelled : i <= k)
            IN SubSeq(text, j, DateEnd(t, j) - 1)

C21_MeetingDate ==
    pc \notin {"process_transcript", "raised"} =>
        IF Truthy(metadata)
        THEN structure.meeting_metadata = metadata
        ELSE structure.meeting_metadata.date = ExpectedDate(transcript_text)

\* of two labelled dates the first one is the meeting date
C21_Witness ==
    /\ Returned
    /\ ~Truthy(metadata)
    /\ structure.meeting_metadata.date = "3/4/2024"
    /\ Contains(transcript_text, "date: 2024-01-05")

(***************************************************************************)
(* C22: the field type is the type of the first row of the keyword table   *)
(* that has a keyword contained in the lower-cased field name, Text field  *)
(* when no row has one; the result is one of the six kinds.                *)
(***************************************************************************)
FieldTypeTable ==
    << [keywords |-> {"date"}, type |-> "Date picker"],
       [keywords |-> {"name"}, type |-> "Text field"],
       [keywords |-> {"email"}, type |-> "Email field"],
       [keywords |-> {"phone"}, type |-> "Phone field"],
       [keywords |-> {"note", "comment", "instruction"}, type |-> "Large text field"],
       [keywords |-> {"status", "type", "frequency"}, type |-> "Dropdown"] >>

FieldKinds ==
    {"Date picker", "Text field", "Email field", "Phone field", "Large text field",
     "Dropdown"}

RowsOf(field_name) ==
    {r \in 1..Len(FieldTypeTable) :
        \E k \in FieldTypeTable[r].keywords : Contains(lower(field_name), k)}

TableLookup(field_name) ==
    IF RowsOf(field_name) = {} THEN "Text field"
    ELSE FieldTypeTable[CHOOSE r \in RowsOf(field_name) :
                           \A q \in RowsOf(field_name) : r <= q].type

C22_FieldType ==
    (call.function = "_guess_field_type" /\ call.returned) =>
        /\ call.result = TableLookup(call.field_name)
        /\ call.result \in FieldKinds

\* a name with keywords of the name row and the email row gets the name row's type
C22_Witness ==
    /\ call.function = "_guess_field_type"
    /\ call.returned
    /\ RowsOf(call.field_name) = {2, 3}
    /\ call.result = "Text field"

(***************************************************************************)
(* C23: the entity name of an add_entity ticket is the first token that    *)
(* follows "add " in the transcript, lower-cased; without an "add <token>" *)
(* occurrence it is the epic name lower-cased with spaces replaced by      *)
(* underscores; it is never empty.                                         *)
(***************************************************************************)
WordChars == UpperSet \cup LowerSet \cup DigitSet \cup {"_"}

IsWordAt(t, i) == i <= Len(t) /\ CharAt(t, i) \in WordChars

IsSpaceAt(t, i) == i <= Len(t) /\ CharAt(t, i) \in SpaceSet

RECURSIVE WordEnd(_, _)
\* the position after the word that starts at i
WordEnd(t, i) == IF IsWordAt(t, i) THEN WordEnd(t, i + 1) ELSE i

\* the start of the token behind the "add" at i, 0 when i starts no "add <token>";
\* with skip_article an article a/an that another token follows is passed over
AddTokenStart(t, i, skip_article) ==
    IF ~(IsAt(t, i, "add") /\ IsSpaceAt(t, i + 3)) THEN 0
    ELSE LET j == SkipSpace(t, i + 3)
             after_a == IF IsAt(t, j, "a") /\ IsSpaceAt(t, j + 1)
                        THEN SkipSpace(t, j + 1) ELSE 0
             after_an == IF IsAt(t, j, "an") /\ IsSpaceAt(t, j + 2)
                         THEN SkipSpace(t, j + 2) ELSE 0
         IN IF skip_article /\ after_a # 0 /\ IsWordAt(t, after_a) THEN after_a
            ELSE IF skip_article /\ after_an # 0 /\ IsWordAt(t, after_an) THEN after_an
            ELSE IF IsWordAt(t, j) THEN j
            ELSE 0

ExpectedEntityName(text, epic_name, skip_article) ==
    LET t == lower(text)
        adds == {i \in 1..Len(t) : AddTokenStart(t, i, skip_article) # 0}
    IN IF adds = {} THEN replace(lower(epic_name), " ", "_")
       ELSE LET j == AddTokenStart(t, CHOOSE i \in adds : \A k \in adds : i <= k,
                                   skip_article)
            IN SubSeq(t, j, WordEnd(t, j) - 1)

\* every add_entity ticket of the returned document has the expected entity name
EntityNamesAre(skip_article) ==
    Returned =>
        \A e \in 1..Len(structure.epics) :
        \A k \in 1..Len(structure.epics[e].tickets) :
            LET ticket == structure.epics[e].tickets[k]
            IN ticket.ticket_type = "add_entity" =>
                  /\ ticket.details.entity_name
                       = ExpectedEntityName(transcript_text, structure.epics[e].epic_name,
                                            skip_article)
                  /\ ticket.details.entity_name # ""

\* C23 as stated: the token directly behind "add "
C23_EntityFirstToken == EntityNamesAre(FALSE)

\* C23 amended: the token behind "add " and an article a/an that a token follows
C23_EntityAfterArticle == EntityNamesAre(TRUE)

\* "add a patient" names the entity patient, not a
C23_Witness ==
    /\ Returned
    /\ Contains(lower(transcript_text), "add a patient")
    /\ \E e \in 1..Len(structure.epics) :
       \E k \in 1..Len(structure.epics[e].tickets) :
          /\ structure.epics[e].tickets[k].ticket_type = "add_entity"
          /\ structure.epics[e].tickets[k].details.entity_name = "patient"

(***************************************************************************)
(* C24: in an interactive run of run_complete_workflow the answer no or    *)
(* edit (stripped and lower-cased, as the code reads it) makes the         *)
(* workflow return with steps_completed = [transcript_processing],         *)
(* tickets_created = 0 and no ticket batch written; any other answer       *)
(* proceeds.  In every run batch_creation is completed only after          *)
(* ticket_generation, that only after transcript_processing, and           *)
(* automated_review only in a non-interactive run.                         *)
(***************************************************************************)
Position(xs, x) == IF InSeq(x, xs) THEN CHOOSE k \in 1..Len(xs) : xs[k] = x ELSE 0

\* step `later` is completed only after step `earlier`
OnlyAfter(steps, later, earlier) ==
    InSeq(later, steps) => (InSeq(earlier, steps) /\ Position(steps, earlier) < Position(steps, later))

HoldsBatch(file) ==
    /\ file.kind = "file"
    /\ file.data.is = "json"
    /\ "total_tickets" \in DOMAIN file.data.value

Cancelled == cli.interactive /\ cli.pc = "returned" /\ cli.response \in {"no", "edit"}

ReviewGate ==
    cli.program = "workflow" =>
        /\ Cancelled =>
              /\ cli.results.steps_completed = <<"transcript_processing">>
              /\ cli.results.tickets_created = 0
              /\ Len(cli.written) = 2
              /\ \A p \in FilePaths : ~HoldsBatch(fs[p])
        /\ (cli.pc = "returned" /\ ~Cancelled) =>
              InSeq("batch_creation", cli.results.steps_completed)
        /\ OnlyAfter(cli.results.steps_completed, "batch_creation", "ticket_generation")
        /\ OnlyAfter(cli.results.steps_completed, "ticket_generation", "transcript_processing")
        /\ InSeq("automated_review", cli.results.steps_completed) => ~cli.interactive

ReviewStep ==
    (cli.program = "workflow" /\ cli.pc = "user_review" /\ cli.interactive) =>
        IF cli'.response \in {"no", "edit"}
        THEN cli'.pc = "returned"
        ELSE cli'.pc = "generate_tickets"

C24_ReviewGating == []ReviewGate /\ [][ReviewStep]_vars

\* the user has answered edit and the workflow has returned
C24_Witness ==
    /\ cli.program = "workflow"
    /\ Cancelled
    /\ cli.response = "edit"
    /\ Len(structure.epics) = 2

(***************************************************************************)
(* C25: when run_complete_workflow completes, tickets_created equals the   *)
(* total_tickets of the batch and the sum over the epics of their numbers  *)
(* of ticket specs; the batch tickets are in epic order, then ticket-spec  *)
(* order, and each has type Story and the summary and priority of its      *)
(* spec.                                                                   *)
(***************************************************************************)
WorkflowCompleted ==
    /\ cli.program = "workflow"
    /\ cli.pc = "returned"
    /\ InSeq("batch_creation", cli.results.steps_completed)

RECURSIVE SumOfTickets(_, _)
SumOfTickets(eps, e) ==
    IF e > Len(eps) THEN 0 ELSE Len(eps[e].tickets) + SumOfTickets(eps, e + 1)

\* the batch file as the workflow left it
Batch == fs[BatchPath(cli.transcript_file)].data.value

C25_BatchTickets ==
    WorkflowCompleted =>
        LET specs == AllTickets(structure.epics, 1)
        IN /\ cli.results.tickets_created = Batch.total_tickets
           /\ Batch.total_tickets = SumOfTickets(structure.epics, 1)
           /\ Len(Batch.tickets) = Len(specs)
           /\ \A k \in 1..Len(specs) :
                 /\ Batch.tickets[k].type = "Story"
                 /\ Batch.tickets[k].summary = specs[k].summary
                 /\ Batch.tickets[k].priority = specs[k].priority

\* a batch of two epics, the first with one ticket and the second with several
C25_Witness ==
    /\ WorkflowCompleted
    /\ Len(structure.epics) = 2
    /\ Batch.total_tickets >= 4
    /\ Batch.tickets[1].summary # Batch.tickets[3].summary

(***************************************************************************)
(* C26: no run of main (with or without --review and --output) and no run  *)
(* of run_complete_workflow opens the path of the transcript for writing,  *)
(* and the files one run writes have pairwise distinct paths.              *)
(***************************************************************************)
C26_DistinctPaths ==
    cli.program \in {"main", "workflow"} =>
        /\ ~InSeq(cli.transcript_file, cli.written)
        /\ \A i, j \in 1..Len(cli.written) : i # j => cli.written[i] # cli.written[j]

(***************************************************************************)
(* C27: create_from_file never calls create_issue in a dry run, nor after  *)
(* a confirmation answer other than yes or y (stripped and lower-cased, as *)
(* the code reads it).  When creation runs, create_batch takes the tickets *)
(* in list order, and afterwards len(created) + len(failed) = total = the  *)
(* number of tickets: a ticket that fails does not keep the later tickets  *)
(* from being created.                                                     *)
(***************************************************************************)
RECURSIVE SummariesOf(_)
SummariesOf(xs) == IF xs = <<>> THEN <<>> ELSE <<Head(xs).summary>> \o SummariesOf(Tail(xs))

Creatable(ticket) == "description" \in DOMAIN ticket

CreationDone ==
    cli.pc = "returned" /\ ~cli.dry_run /\ cli.response \in {"yes", "y"}

ExpectedEpicTypes(c) ==
    (IF c.include_backend THEN <<"backend_architecture">> ELSE <<>>)
    \o (IF c.include_rbac THEN <<"rbac_permissions">> ELSE <<>>)
    \o (IF c.include_nav THEN <<"nav_menu">> ELSE <<>>)
    \o [k \in 1..(2 * Len(c.tabs)) |->
          IF k % 2 = 1 THEN "view_table_data" ELSE "search_filter"]

\* the tab the k-th ticket is about, "" for the tickets of the flags
ExpectedEpicTab(c, k) ==
    LET flags == B2N(c.include_backend) + B2N(c.include_rbac) + B2N(c.include_nav)
    IN IF k <= flags THEN "" ELSE c.tabs[(k - flags + 1) \div 2]

C29_EpicTickets ==
    (call.function = "generate_epic_tickets" /\ call.returned) =>
        LET types == ExpectedEpicTypes(call)
        IN /\ Len(call.result) = B2N(call.include_backend) + B2N(call.include_rbac)
                                    + B2N(call.include_nav) + 2 * Len(call.tabs)
           /\ Len(call.result) = Len(types)
           /\ \A k \in 1..Len(call.result) :
                 /\ detect_ticket_type(call.result[k].summary) = types[k]
                 /\ call.result[k].summary
                      = generate_summary(types[k], call.epic_name, ExpectedEpicTab(call, k),
                                         "", "")
                 /\ call.result[k].priority = "High"
           /\ (~call.include_backend /\ ~call.include_rbac /\ ~call.include_nav
                 /\ call.tabs = <<>>) => call.result = <<>>

\* the call of demo_epic_generation: all flags and three tabs give nine tickets
C29_Witness ==
    /\ call.function = "generate_epic_tickets"
    /\ call.returned
    /\ call.include_backend /\ call.include_rbac /\ call.include_nav
    /\ Len(call.tabs) = 3
    /\ Len(call.result) = 9

(***************************************************************************)
(* C30: for each of the ten templated ticket types and every feature, tab  *)
(* and entity name, detect_ticket_type of the generated summary is the     *)
(* type the summary was generated for, also with a scope prefix FE: or     *)
(* BE:; and generate_summary never puts the requested prefix in front of a *)
(* summary that already starts with it.                                    *)
(***************************************************************************)
Detected == call.function = "generate_summary" /\ call.stage = "detected"

\* the summary without scope
Unscoped == generate_summary(call.ticket_type, call.feature_name, call.tab_name,
                             call.entity_name, "")

NoDoubledPrefix ==
    /\ \A prefix \in {"FE", "BE"} :
          ~startswith(call.summary, prefix \o ": " \o prefix \o ":")
    /\ startswith(Unscoped, upper(call.scope) \o ":") => call.summary = Unscoped
    /\ (call.scope # "" /\ ~startswith(Unscoped, upper(call.scope) \o ":"))
          => call.summary = upper(call.scope) \o ": " \o Unscoped

\* the phrases detect_ticket_type looks for
DetectionPhrases ==
    {"user should be able to access and view data in the table",
     "user should be able to add", "user should be able to perform actions",
     "user should be able to search and filter", "user should be able to filter",
     "user should be able to download", "user should be able to upload",
     "implement backend architecture", "adding rbac", "permissions related to",
     "user should be able to view a new menu", "handling deleted data", "edge case"}

PlainNames ==
    \A name \in {call.feature_name, call.tab_name, call.entity_name} :
    \A phrase \in DetectionPhrases : ~Contains(lower(name), phrase)

\* C30 as stated: for every name
C30_RoundTrip ==
    Detected => (call.result = call.ticket_type /\ NoDoubledPrefix)

\* C30 amended: for names that contain none of the phrases detect_ticket_type looks for
C30_RoundTripPlainNames ==
    Detected => ((PlainNames => call.result = call.ticket_type) /\ NoDoubledPrefix)

\* a backend summary asked for with scope BE keeps its one prefix and is detected
C30_Witness ==
    /\ Detected
    /\ call.ticket_type = "backend_architecture"
    /\ call.scope = "BE"
    /\ PlainNames
    /\ call.summary = Unscoped
    /\ call.result = "backend_architecture"

(***************************************************************************)
(* C28  create_tickets.py, main_menu.                                      *)
(***************************************************************************)
IsPrefix(s, t) == Len(s) <= Len(t) /\ SubSeq(t, 1, Len(s)) = s

\* A pass of the menu loop changes tickets_to_create only by a confirmed add of
\* one ticket (choice 1: one more element at the end), a confirmed add of an epic
\* set (choice 2: the old batch is a prefix of the new one) or a confirmed clear
\* (choice 5: the batch becomes empty); every other pass leaves it unchanged.
BatchStep ==
    LET old == cli.tickets_to_create
        new == cli'.tickets_to_create
    IN /\ new # old =>
            /\ cli'.confirmed
            /\ \/ cli'.choice = "1" /\ Len(new) = Len(old) + 1 /\ IsPrefix(old, new)
               \/ cli'.choice = "2" /\ IsPrefix(old, new)
               \/ cli'.choice = "5" /\ new = <<>>
       /\ (cli'.choice = "1" /\ cli'.confirmed) => Len(new) = Len(old) + 1
       /\ (cli'.choice = "5" /\ cli'.confirmed) => new = <<>>

\* The loop is left only on choice 6, and with a non-empty batch only after the
\* user confirmed.
ExitStep ==
    (cli.pc = "menu" /\ cli'.pc # "menu") =>
        /\ cli'.choice = "6"
        /\ cli.tickets_to_create = <<>> \/ cli'.confirmed

\* The effect of the menu on the batch alone.
BatchFrame == [][BatchStep]_vars

\* C28: in the main menu the batch tickets_to_create changes only by a confirmed
\* add (one ticket or one epic set appended, order preserved) or a confirmed clear
\* (it becomes empty), and review, export, a declined add, a declined clear and
\* an invalid choice leave it unchanged; the loop is left only on choice 6, and
\* with a non-empty batch only after the user confirmed leaving without export.
C28_MainMenu == [][BatchStep /\ ExitStep]_vars

====
